---- MODULE Spec2Model ----
(***************************************************************************)
(* A model of the sgb CPU core (src/cpu.rs) and its address decoder        *)
(* (src/mmu.rs): registers and flags, the 16-bit address space, the timer  *)
(* unit, the interrupt controller, the two dispatch tables, the instruction*)
(* semantics and the execution step.                                       *)
(*                                                                         *)
(* The machine is the record vm, shaped like the Vm structure: vm.cpu      *)
(* (registers, clock, interrupt, timers) and vm.mmu (the banks, ier, ifr,  *)
(* bios_enabled).  Every Rust function `f(vm, ...)` is an operator of the  *)
(* same name taking and returning a vm; an instruction returns             *)
(* [vm |-> ..., clock |-> [m |-> ..., t |-> ...]].                         *)
(***************************************************************************)
EXTENDS Integers, Sequences, FiniteSets, TLC

VARIABLES
    vm,               \* the Vm structure (cpu + mmu + the gpu's sprite cache)
    overflow_checks,  \* build profile: TRUE = arithmetic overflow panics (debug)
    icount,           \* number of instructions executed since reset
    step,             \* what the last call of execute_one_instruction did
    trace             \* per executed step: the PC it started at, the source it served

vars == <<vm, overflow_checks, icount, step, trace>>

-----------------------------------------------------------------------------
(* Machine arithmetic: u8 / u16 values are naturals, operators wrap as the  *)
(* Rust operators do.                                                      *)

\* `let x = e;` of the source: Let(e, LAMBDA x : b) is b with x standing for
\* the value of e.
Let(e, F(_)) == F(e)

RECURSIVE And(_, _)
And(a, b) ==
    IF a = 0 \/ b = 0 THEN 0
    ELSE (a % 2) * (b % 2) + 2 * And(a \div 2, b \div 2)

RECURSIVE Or(_, _)
Or(a, b) ==
    IF a = 0 THEN b
    ELSE IF b = 0 THEN a
    ELSE (IF a % 2 = 1 \/ b % 2 = 1 THEN 1 ELSE 0) + 2 * Or(a \div 2, b \div 2)

RECURSIVE Xor(_, _)
Xor(a, b) ==
    IF a = 0 THEN b
    ELSE IF b = 0 THEN a
    ELSE ((a + b) % 2) + 2 * Xor(a \div 2, b \div 2)

\* !x on a u8
Not8(a) == 255 - a

\* x << n and x >> n on a u8 (bits shifted out are lost)
Shl8(a, n) == (a * (2 ^ n)) % 256
Shr(a, n) == a \div (2 ^ n)

wrapping_add8(a, b) == (a + b) % 256
wrapping_sub8(a, b) == (a - b + 256) % 256
wrapping_add16(a, b) == (a + b) % 65536
wrapping_sub16(a, b) == (a - b + 65536) % 65536

\* A u64 is held as four 16-bit limbs, least significant first, so that
\* values near 2^64 stay representable; n is a small natural.
Limb == 65536
U64(n) == <<n % Limb, (n \div Limb) % Limb, 0, 0>>
wrapping_add64(x, n) ==
    Let(x[1] + n, LAMBDA s1 :
    Let(x[2] + (s1 \div Limb), LAMBDA s2 :
    Let(x[3] + (s2 \div Limb), LAMBDA s3 :
    Let(x[4] + (s3 \div Limb), LAMBDA s4 :
        <<s1 % Limb, s2 % Limb, s3 % Limb, s4 % Limb>>))))

\* tools::w_combine / tools::w_uncombine: (h:l) <-> u16, h the high byte
w_combine(h, l) == h * 256 + l
w_uncombine(value) == [h |-> value \div 256, l |-> value % 256]

\* bool as u8
b2u(b) == IF b THEN 1 ELSE 0

-----------------------------------------------------------------------------
(* Registers, flags, the structures and their defaults                     *)

Register == [A |-> 0, B |-> 1, C |-> 2, D |-> 3, E |-> 4, H |-> 5, L |-> 6, F |-> 7]
Flag == [Z |-> 7, N |-> 6, H |-> 5, C |-> 4]

InterruptState == {"IEnabled", "IDisabled", "IDisableNextInst", "IEnableNextInst"}

Registers_default ==
    [rs |-> [r \in 0..7 |-> CASE r = 0 -> \h01 [] r = 1 -> \h00 [] r = 2 -> \h13
                              [] r = 3 -> \h00 [] r = 4 -> \hD8 [] r = 5 -> \h01
                              [] r = 6 -> \h4D [] r = 7 -> \hB0],
     pc |-> \h0000,
     sp |-> \hFFFE]

Clock(m, t) == [m |-> m, t |-> t]

Timers_default ==
    [div |-> 0, tima |-> 0, tma |-> 0,
     tac |-> [timer_mode |-> 0, running |-> FALSE],
     imp_4c |-> 0, imp_nc |-> 0]

Cpu_default ==
    [registers |-> Registers_default,
     clock     |-> [m |-> U64(0), t |-> U64(0)],
     interrupt |-> "IDisabled",
     timers    |-> Timers_default]

InterruptFlags_default ==
    [vblank |-> FALSE, lcd_stat |-> FALSE, timer |-> FALSE,
     serial |-> FALSE, joypad |-> FALSE]

interrupt_to_u8(ir) ==
    Or(Or(Or(Or(b2u(ir.vblank), b2u(ir.lcd_stat) * 2), b2u(ir.timer) * 4),
          b2u(ir.serial) * 8), b2u(ir.joypad) * 16)

u8_to_interrupt(byte) ==
    [vblank   |-> And(byte, \h01) # 0,
     lcd_stat |-> And(byte, \h02) # 0,
     timer    |-> And(byte, \h04) # 0,
     serial   |-> And(byte, \h08) # 0,
     joypad   |-> And(byte, \h10) # 0]

\* A bank is a byte array that starts zero-filled (tools::empty_memory); it
\* is held as the function from the indices holding a non-zero byte.
empty_memory == [i \in {} |-> 0]
Load(bank, i) == IF i \in DOMAIN bank THEN bank[i] ELSE 0
Store(bank, i, v) ==
    IF v = 0 THEN [j \in (DOMAIN bank) \ {i} |-> bank[j]]
    ELSE [j \in (DOMAIN bank) \cup {i} |-> IF j = i THEN v ELSE bank[j]]

bios ==
    << \h31, \hFE, \hFF, \hAF, \h21, \hFF, \h9F, \h32, \hCB, \h7C, \h20, \hFB, \h21, \h26, \hFF, \h0E,
       \h11, \h3E, \h80, \h32, \hE2, \h0C, \h3E, \hF3, \hE2, \h32, \h3E, \h77, \h77, \h3E, \hFC, \hE0,
       \h47, \h11, \h04, \h01, \h21, \h10, \h80, \h1A, \hCD, \h95, \h00, \hCD, \h96, \h00, \h13, \h7B,
       \hFE, \h34, \h20, \hF3, \h11, \hD8, \h00, \h06, \h08, \h1A, \h13, \h22, \h23, \h05, \h20, \hF9,
       \h3E, \h19, \hEA, \h10, \h99, \h21, \h2F, \h99, \h0E, \h0C, \h3D, \h28, \h08, \h32, \h0D, \h20,
       \hF9, \h2E, \h0F, \h18, \hF3, \h67, \h3E, \h64, \h57, \hE0, \h42, \h3E, \h91, \hE0, \h40, \h04,
       \h1E, \h02, \h0E, \h0C, \hF0, \h44, \hFE, \h90, \h20, \hFA, \h0D, \h20, \hF7, \h1D, \h20, \hF2,
       \h0E, \h13, \h24, \h7C, \h1E, \h83, \hFE, \h62, \h28, \h06, \h1E, \hC1, \hFE, \h64, \h20, \h06,
       \h7B, \hE2, \h0C, \h3E, \h87, \hF2, \hF0, \h42, \h90, \hE0, \h42, \h15, \h20, \hD2, \h05, \h20,
       \h4F, \h16, \h20, \h18, \hCB, \h4F, \h06, \h04, \hC5, \hCB, \h11, \h17, \hC1, \hCB, \h11, \h17,
       \h05, \h20, \hF5, \h22, \h23, \h22, \h23, \hC9, \hCE, \hED, \h66, \h66, \hCC, \h0D, \h00, \h0B,
       \h03, \h73, \h00, \h83, \h00, \h0C, \h00, \h0D, \h00, \h08, \h11, \h1F, \h88, \h89, \h00, \h0E,
       \hDC, \hCC, \h6E, \hE6, \hDD, \hDD, \hD9, \h99, \hBB, \hBB, \h67, \h63, \h6E, \h0E, \hEC, \hCC,
       \hDD, \hDC, \h99, \h9F, \hBB, \hB9, \h33, \h3E, \h3c, \h42, \hB9, \hA5, \hB9, \hA5, \h42, \h4C,
       \h21, \h04, \h01, \h11, \hA8, \h00, \h1A, \h13, \hBE, \h20, \hFE, \h23, \h7D, \hFE, \h34, \h20,
       \hF5, \h06, \h19, \h78, \h86, \h23, \h05, \h20, \hFB, \h86, \h20, \hFE, \h3E, \h01, \hE0, \h50 >>

Mmu_default ==
    [rom   |-> empty_memory,
     srom  |-> empty_memory,
     vram  |-> empty_memory,
     eram  |-> empty_memory,
     wram  |-> empty_memory,
     swram |-> empty_memory,
     oam   |-> empty_memory,
     hram  |-> empty_memory,
     ier   |-> InterruptFlags_default,
     ifr   |-> InterruptFlags_default,
     bios_enabled |-> TRUE,
     joyp  |-> \h3F]

\* The whole machine after reset.  io: the I/O ports the core keeps no field
\* for; sprites: the gpu's sprite cache fed by OAM writes; panicked: the
\* process has aborted on an arithmetic overflow.
Vm_default ==
    [cpu |-> Cpu_default,
     mmu |-> Mmu_default,
     io  |-> empty_memory,
     sprites  |-> [k \in {} |-> 0],
     debug    |-> 0,
     panicked |-> FALSE]

reg(v, r) == v.cpu.registers.rs[r]
set_reg(v, r, value) == [v EXCEPT !.cpu.registers.rs[r] = value]
pc(v) == v.cpu.registers.pc
sp(v) == v.cpu.registers.sp
set_pc(v, value) == [v EXCEPT !.cpu.registers.pc = value]
set_sp(v, value) == [v EXCEPT !.cpu.registers.sp = value]
hl(v) == w_combine(reg(v, Register.H), reg(v, Register.L))
flag(v, f) == And(\h01, Shr(reg(v, Register.F), f)) = \h01
set_hl(v, value) ==
    Let(w_uncombine(value), LAMBDA w :
        set_reg(set_reg(v, Register.H, w.h), Register.L, w.l))

\* The process aborts (a panic); what it held is lost.
panic(v) == [v EXCEPT !.panicked = TRUE]

reset_flags(v) == set_reg(v, Register.F, 0)

set_flag(v, f, value) ==
    IF value
    THEN set_reg(v, Register.F, Or(reg(v, Register.F), Shl8(1, f)))
    ELSE set_reg(v, Register.F, And(reg(v, Register.F), Not8(Shl8(1, f))))

get_r16(v, h, l) == w_combine(reg(v, h), reg(v, l))

\* A pair write that stored the low byte as it came
set_r16_unmasked(v, h, l, value) ==
    Let(w_uncombine(value), LAMBDA w :
    Let(set_reg(v, h, w.h), LAMBDA v1 :
        set_reg(v1, l, w.l)))

set_r16(v, h, l, value) ==
    Let(w_uncombine(value), LAMBDA w :
    Let(set_reg(v, h, w.h), LAMBDA v1 :
    Let(set_reg(v1, l, w.l), LAMBDA v2 :
        IF l = Register.F THEN set_reg(v2, l, And(reg(v2, l), \hF0)) ELSE v2)))

-----------------------------------------------------------------------------
(* The address decoder (mmu.rs) and the I/O dispatcher it delegates to      *)

\* io::dispatch_io_read: the interrupt registers, the timer registers and
\* the joypad register are fields of the machine; any other port reads back
\* what was last written to it.
dispatch_io_read(addr, v) ==
    CASE addr = \hFF0F -> interrupt_to_u8(v.mmu.ifr)
      [] addr = \hFFFF -> interrupt_to_u8(v.mmu.ier)
      [] addr = \hFF00 -> v.mmu.joyp
      [] addr = \hFF04 -> v.cpu.timers.div
      [] addr = \hFF05 -> v.cpu.timers.tima
      [] addr = \hFF06 -> v.cpu.timers.tma
      [] addr = \hFF07 -> Or(v.cpu.timers.tac.timer_mode,
                             b2u(v.cpu.timers.tac.running) * 4)
      [] OTHER -> Load(v.io, addr)

\* io::dispatch_io_write
dispatch_io_write(addr, value, v) ==
    CASE addr = \hFF0F -> [v EXCEPT !.mmu.ifr = u8_to_interrupt(value)]
      [] addr = \hFFFF -> [v EXCEPT !.mmu.ier = u8_to_interrupt(value)]
      [] addr = \hFF00 -> v
      [] addr = \hFF04 -> [v EXCEPT !.cpu.timers.div = 0]
      [] addr = \hFF05 -> [v EXCEPT !.cpu.timers.tima = value]
      [] addr = \hFF06 -> [v EXCEPT !.cpu.timers.tma = value]
      [] addr = \hFF07 -> [v EXCEPT !.cpu.timers.tac =
                              [timer_mode |-> And(value, \h03),
                               running |-> And(value, \h04) # 0]]
      [] OTHER -> [v EXCEPT !.io = Store(@, addr, value)]

rb(addr, v) ==
    CASE addr <= \h00FF -> IF v.mmu.bios_enabled THEN bios[addr + 1]
                           ELSE Load(v.mmu.rom, addr)
      [] addr >= \h0100 /\ addr <= \h3FFF -> Load(v.mmu.rom, addr)
      [] addr >= \h4000 /\ addr <= \h7FFF -> Load(v.mmu.srom, addr - \h4000)
      [] addr >= \h8000 /\ addr <= \h9FFF -> Load(v.mmu.vram, addr - \h8000)
      [] addr >= \hA000 /\ addr <= \hBFFF -> Load(v.mmu.eram, addr - \hA000)
      [] addr >= \hC000 /\ addr <= \hCFFF -> Load(v.mmu.wram, addr - \hC000)
      [] addr >= \hD000 /\ addr <= \hDFFF -> Load(v.mmu.swram, addr - \hD000)
      [] addr >= \hE000 /\ addr <= \hEFFF -> Load(v.mmu.wram, addr - \hE000)
      [] addr >= \hF000 /\ addr <= \hFDFF -> Load(v.mmu.swram, addr - \hF000)
      [] addr >= \hFE00 /\ addr <= \hFE9F -> Load(v.mmu.oam, addr - \hFE00)
      [] addr >= \hFF80 /\ addr <= \hFFFE -> Load(v.mmu.hram, addr - \hFF80)
      [] OTHER -> dispatch_io_read(addr, v)

\* `addr + 1` on a u16: overflows at 0xFFFF, which aborts a build with
\* overflow checks and wraps to 0x0000 in one without.
addr_overflows(addr) == overflow_checks /\ addr = \hFFFF

rw(addr, v) ==
    Let(rb(addr, v), LAMBDA l :
    Let(rb(wrapping_add16(addr, 1), v), LAMBDA h :
        w_combine(h, l)))

update_sprite(index, value, v) ==
    Let(index \div 4, LAMBDA n :
    LET put(s, field, x) == [k \in (DOMAIN s) \cup {<<n, field>>} |->
                                IF k = <<n, field>> THEN x ELSE s[k]] IN
        CASE And(index, \h03) = 0 -> [v EXCEPT !.sprites = put(@, "y", value - 16)]
          [] And(index, \h03) = 1 -> [v EXCEPT !.sprites = put(@, "x", value - 8)]
          [] And(index, \h03) = 2 -> [v EXCEPT !.sprites = put(@, "tile_idx", value)]
          [] And(index, \h03) = 3 ->
                [v EXCEPT !.sprites =
                    put(put(put(put(@, "priority", And(value, \h80) = 0),
                                "y_flip", And(value, \h40) # 0),
                            "x_flip", And(value, \h20) # 0),
                        "palette", And(value, \h10) # 0)])

\* A decoder whose cartridge ROM takes writes
wb_rom_writable(addr, value, v) ==
    Let(  CASE addr <= \h3FFF -> [v EXCEPT !.mmu.rom = Store(@, addr, value)]
            [] addr >= \h4000 /\ addr <= \h7FFF -> [v EXCEPT !.mmu.srom = Store(@, addr - \h4000, value)]
            [] addr >= \h8000 /\ addr <= \h9FFF -> [v EXCEPT !.mmu.vram = Store(@, addr - \h8000, value)]
            [] addr >= \hA000 /\ addr <= \hBFFF -> [v EXCEPT !.mmu.eram = Store(@, addr - \hA000, value)]
            [] addr >= \hC000 /\ addr <= \hCFFF -> [v EXCEPT !.mmu.wram = Store(@, addr - \hC000, value)]
            [] addr >= \hD000 /\ addr <= \hDFFF -> [v EXCEPT !.mmu.swram = Store(@, addr - \hD000, value)]
            [] addr >= \hE000 /\ addr <= \hEFFF -> [v EXCEPT !.mmu.wram = Store(@, addr - \hE000, value)]
            [] addr >= \hF000 /\ addr <= \hFDFF -> [v EXCEPT !.mmu.swram = Store(@, addr - \hF000, value)]
            [] addr >= \hFE00 /\ addr <= \hFE9F ->
                  Let(addr - \hFE00, LAMBDA index :
                      update_sprite(index, value,
                                    [v EXCEPT !.mmu.oam = Store(@, index, value)]))
            [] addr >= \hFF80 /\ addr <= \hFFFE -> [v EXCEPT !.mmu.hram = Store(@, addr - \hFF80, value)]
            [] OTHER -> dispatch_io_write(addr, value, v), LAMBDA v1 :
        IF addr = \hFF01 THEN [v1 EXCEPT !.debug = value] ELSE v1)

wb(addr, value, v) ==
    Let(  CASE addr <= \h7FFF -> v
            [] addr >= \h8000 /\ addr <= \h9FFF -> [v EXCEPT !.mmu.vram = Store(@, addr - \h8000, value)]
            [] addr >= \hA000 /\ addr <= \hBFFF -> [v EXCEPT !.mmu.eram = Store(@, addr - \hA000, value)]
            [] addr >= \hC000 /\ addr <= \hCFFF -> [v EXCEPT !.mmu.wram = Store(@, addr - \hC000, value)]
            [] addr >= \hD000 /\ addr <= \hDFFF -> [v EXCEPT !.mmu.swram = Store(@, addr - \hD000, value)]
            [] addr >= \hE000 /\ addr <= \hEFFF -> [v EXCEPT !.mmu.wram = Store(@, addr - \hE000, value)]
            [] addr >= \hF000 /\ addr <= \hFDFF -> [v EXCEPT !.mmu.swram = Store(@, addr - \hF000, value)]
            [] addr >= \hFE00 /\ addr <= \hFE9F ->
                  Let(addr - \hFE00, LAMBDA index :
                      update_sprite(index, value,
                                    [v EXCEPT !.mmu.oam = Store(@, index, value)]))
            [] addr >= \hFF80 /\ addr <= \hFFFE -> [v EXCEPT !.mmu.hram = Store(@, addr - \hFF80, value)]
            [] OTHER -> dispatch_io_write(addr, value, v), LAMBDA v1 :
        \* ROM writes return before the serial debug channel is looked at
        IF addr <= \h7FFF THEN v
        ELSE IF addr = \hFF01 THEN [v1 EXCEPT !.debug = value]
        ELSE v1)

\* A 16-bit store with the high byte first
ww_big_endian(addr, value, v) ==
    Let(w_uncombine(value), LAMBDA w :
    Let(wb(addr, w.h, v), LAMBDA v1 :
        IF addr_overflows(addr) THEN panic(v1)
        ELSE wb(wrapping_add16(addr, 1), w.l, v1)))

ww(addr, value, v) ==
    Let(w_uncombine(value), LAMBDA w :
    Let(wb(addr, w.l, v), LAMBDA v1 :
        IF addr_overflows(addr) THEN panic(v1)
        ELSE wb(wrapping_add16(addr, 1), w.h, v1)))

read_program_byte(v) ==
    [byte |-> rb(pc(v), v), vm |-> set_pc(v, wrapping_add16(pc(v), 1))]

read_program_word(v) ==
    [word |-> rw(pc(v), v),
     vm   |-> Let(set_pc(v, wrapping_add16(pc(v), 2)), LAMBDA v1 :
                  IF addr_overflows(pc(v)) THEN panic(v1) ELSE v1)]

-----------------------------------------------------------------------------
(* Clock and timers                                                        *)

\* A clock whose fields stuck at the top instead of wrapping
update_cpu_clock_saturating(clock, v) ==
    Let(<<Limb - 1, Limb - 1, Limb - 1, Limb - 1>>, LAMBDA top :
    LET sat(x, n) == IF x[2] = Limb - 1 /\ x[3] = Limb - 1 /\ x[4] = Limb - 1
                        /\ x[1] + n >= Limb
                     THEN top ELSE wrapping_add64(x, n) IN
        [v EXCEPT !.cpu.clock.m = sat(@, clock.m),
                  !.cpu.clock.t = sat(@, clock.t)])

\* A clock whose cycle field counts machine cycles
update_cpu_clock_machine_cycles(clock, v) ==
    [v EXCEPT !.cpu.clock.m = wrapping_add64(@, clock.m),
              !.cpu.clock.t = wrapping_add64(@, clock.m)]

update_cpu_clock(clock, v) ==
    [v EXCEPT !.cpu.clock.m = wrapping_add64(@, clock.m),
              !.cpu.clock.t = wrapping_add64(@, clock.t)]

\* A counter that overflows to zero instead of reloading the modulo
RECURSIVE tima_ticks_to_zero(_, _, _)
tima_ticks_to_zero(t, ifr, diff) ==
    IF t.imp_nc >= diff
    THEN Let([t EXCEPT !.imp_nc = @ - diff], LAMBDA t1 :
             IF t1.tima = \hFF
             THEN tima_ticks_to_zero([t1 EXCEPT !.tima = 0],
                                     [ifr EXCEPT !.timer = TRUE], diff)
             ELSE tima_ticks_to_zero([t1 EXCEPT !.tima = wrapping_add8(@, 1)],
                                     ifr, diff))
    ELSE [t |-> t, ifr |-> ifr]

\* `while n >= d { n -= d; tick }` run to completion
RECURSIVE tima_ticks(_, _, _)
tima_ticks(t, ifr, diff) ==
    IF t.imp_nc >= diff
    THEN Let([t EXCEPT !.imp_nc = @ - diff], LAMBDA t1 :
             IF t1.tima = \hFF
             THEN tima_ticks([t1 EXCEPT !.tima = t1.tma],
                             [ifr EXCEPT !.timer = TRUE], diff)
             ELSE tima_ticks([t1 EXCEPT !.tima = wrapping_add8(@, 1)], ifr, diff))
    ELSE [t |-> t, ifr |-> ifr]

\* A divider that ticks at most once per advance (`if` for `while`)
div_ticks_once(t) ==
    IF t.imp_4c >= 4
    THEN [t EXCEPT !.imp_4c = @ - 4, !.div = wrapping_add8(@, 1)]
    ELSE t

RECURSIVE div_ticks(_)
div_ticks(t) ==
    IF t.imp_4c >= 4
    THEN div_ticks([t EXCEPT !.imp_4c = @ - 4, !.div = wrapping_add8(@, 1)])
    ELSE t

\* A timer run at the rates of the hardware's input clock selector
update_timers_hardware_rates(clock, v) ==
    Let([v.cpu.timers EXCEPT !.imp_4c = @ + clock.t], LAMBDA t0 :
    Let(div_ticks(t0), LAMBDA t1 :
    Let(    CASE t1.tac.timer_mode = 0 -> 1024
              [] t1.tac.timer_mode = 1 -> 16
              [] t1.tac.timer_mode = 2 -> 64
              [] t1.tac.timer_mode = 3 -> 256
              [] OTHER -> 1024, LAMBDA diff :
    Let( IF t1.tac.running
             THEN tima_ticks([t1 EXCEPT !.imp_nc = @ + clock.t], v.mmu.ifr, diff)
             ELSE [t |-> t1, ifr |-> v.mmu.ifr], LAMBDA r :
        [v EXCEPT !.cpu.timers = r.t, !.mmu.ifr = r.ifr]))))

update_timers(clock, v) ==
    Let([v.cpu.timers EXCEPT !.imp_4c = @ + clock.t], LAMBDA t0 :
    Let(div_ticks(t0), LAMBDA t1 :
    Let(    CASE t1.tac.timer_mode = 0 -> 16
                  [] t1.tac.timer_mode = 1 -> 1
                  [] t1.tac.timer_mode = 2 -> 8
                  [] t1.tac.timer_mode = 3 -> 4
                  [] OTHER -> 16, LAMBDA diff :
    Let( IF t1.tac.running
             THEN tima_ticks([t1 EXCEPT !.imp_nc = @ + clock.t], v.mmu.ifr, diff)
             ELSE [t |-> t1, ifr |-> v.mmu.ifr], LAMBDA r :
        [v EXCEPT !.cpu.timers = r.t, !.mmu.ifr = r.ifr]))))

-----------------------------------------------------------------------------
(* Instruction semantics (cpu.rs).  Each returns the machine after the     *)
(* instruction and the Clock it costs.                                     *)

R(v, m, t) == [vm |-> v, clock |-> Clock(m, t)]

i_nop(v) == R(v, 1, 4)

i_ldrr(v, dst, src) == R(set_reg(v, dst, reg(v, src)), 1, 4)

i_ldrr16m(v, dst, h, l) ==
    Let(get_r16(v, h, l), LAMBDA addr :
        R(set_reg(v, dst, rb(addr, v)), 1, 8))

i_ldr16mr(v, h, l, src) ==
    Let(get_r16(v, h, l), LAMBDA addr :
        R(wb(addr, reg(v, src), v), 1, 8))

i_ldcma(v) ==
    Let(\hFF00 + reg(v, Register.C), LAMBDA addr :
        R(wb(addr, reg(v, Register.A), v), 1, 8))

i_ldacm(v) ==
    Let(\hFF00 + reg(v, Register.C), LAMBDA addr :
        R(set_reg(v, Register.A, rb(addr, v)), 1, 8))

i_ldha8ma(v) ==
    Let(read_program_byte(v), LAMBDA p :
    Let(\hFF00 + p.byte, LAMBDA addr :
        R(wb(addr, reg(p.vm, Register.A), p.vm), 2, 12)))

i_ldhaa8m(v) ==
    Let(read_program_byte(v), LAMBDA p :
    Let(\hFF00 + p.byte, LAMBDA addr :
        R(set_reg(p.vm, Register.A, rb(addr, p.vm)), 2, 12)))

\* modificator is +1 or -1 (an i16 cast to u16 and added with wrap-around)
i_ldmod_hlma(v, modificator) ==
    Let(wb(hl(v), reg(v, Register.A), v), LAMBDA v1 :
    Let(wrapping_add16(hl(v1), (modificator + 65536) % 65536), LAMBDA sum :
        R(set_hl(v1, sum), 1, 8)))

i_ldmod_ahlm(v, modificator) ==
    Let(set_reg(v, Register.A, rb(hl(v), v)), LAMBDA v1 :
    Let(wrapping_add16(hl(v1), (modificator + 65536) % 65536), LAMBDA sum :
        R(set_hl(v1, sum), 1, 8)))

i_ldihlma(v) == i_ldmod_hlma(v, 1)
i_ldiahlm(v) == i_ldmod_ahlm(v, 1)
i_lddhlma(v) == i_ldmod_hlma(v, -1)
i_lddahlm(v) == i_ldmod_ahlm(v, -1)

\* An immediate load costing what a register load costs
i_ldrd8_4_cycles(v, dst) ==
    Let(read_program_byte(v), LAMBDA p :
        R(set_reg(p.vm, dst, p.byte), 2, 4))

i_ldrd8(v, dst) ==
    Let(read_program_byte(v), LAMBDA p :
        R(set_reg(p.vm, dst, p.byte), 2, 8))

i_ldhlmd8(v) ==
    Let(hl(v), LAMBDA addr :
    Let(read_program_byte(v), LAMBDA p :
        R(wb(addr, p.byte, p.vm), 2, 8)))

i_lda16ma(v) ==
    Let(read_program_word(v), LAMBDA p :
        R(wb(p.word, reg(p.vm, Register.A), p.vm), 3, 12))

i_ldaa16m(v) ==
    Let(read_program_word(v), LAMBDA p :
        R(set_reg(p.vm, Register.A, rb(p.word, p.vm)), 3, 12))

i_lda16msp(v) ==
    Let(read_program_word(v), LAMBDA p :
        R(ww(p.word, sp(p.vm), p.vm), 3, 20))

i_ldr16d16(v, h, l) ==
    Let(read_program_word(v), LAMBDA p :
        R(set_r16(p.vm, h, l, p.word), 3, 12))

i_ldspd16(v) ==
    Let(read_program_word(v), LAMBDA p :
        R(set_sp(p.vm, p.word), 3, 12))

i_ldsphl(v) == R(set_sp(v, hl(v)), 1, 8)

\* --- XOR / SWAP / OR / AND

i_xor_imp(src_val, v) ==
    Let(set_reg(v, Register.A, Xor(reg(v, Register.A), src_val)), LAMBDA v1 :
    Let(reg(v1, Register.A), LAMBDA result :
        set_flag(v1, Flag.Z, result = 0)))

i_xorr(v, src) == R(i_xor_imp(reg(reset_flags(v), src), reset_flags(v)), 1, 8)

i_xorhlm(v) ==
    Let(reset_flags(v), LAMBDA v1 :
        R(i_xor_imp(rb(hl(v1), v1), v1), 1, 8))

i_xord8(v) ==
    Let(read_program_byte(reset_flags(v)), LAMBDA p :
        R(i_xor_imp(p.byte, p.vm), 1, 8))

\* returns [result, vm]
i_swap_imp(value, v) ==
    Let(Or(Shl8(value, 4), Shr(value, 4)), LAMBDA result :
        [result |-> result, vm |-> set_flag(reset_flags(v), Flag.Z, result = 0)])

i_swap(v, src) ==
    Let(i_swap_imp(reg(v, src), v), LAMBDA r :
        R(set_reg(r.vm, src, r.result), 2, 8))

i_swaphlm(v) ==
    Let(i_swap_imp(rb(hl(v), v), v), LAMBDA r :
        R(wb(hl(r.vm), r.result, r.vm), 2, 16))

i_or_imp(src_val, v) ==
    Let(reset_flags(v), LAMBDA v1 :
    Let(set_reg(v1, Register.A, Or(reg(v1, Register.A), src_val)), LAMBDA v2 :
    Let(reg(v2, Register.A), LAMBDA result :
        set_flag(reset_flags(v2), Flag.Z, result = 0))))

i_orr(v, src) == R(i_or_imp(reg(v, src), v), 1, 4)
i_orhlm(v) == R(i_or_imp(rb(hl(v), v), v), 1, 8)
i_ord8(v) ==
    Let(read_program_byte(v), LAMBDA p :
        R(i_or_imp(p.byte, p.vm), 2, 8))

i_and_imp(src_val, v) ==
    Let(reset_flags(v), LAMBDA v1 :
    Let(set_reg(v1, Register.A, And(reg(v1, Register.A), src_val)), LAMBDA v2 :
    Let(reg(v2, Register.A), LAMBDA result :
        set_flag(set_flag(reset_flags(v2), Flag.Z, result = 0), Flag.H, TRUE))))

i_andr(v, src) == R(i_and_imp(reg(v, src), v), 1, 4)
i_andhlm(v) == R(i_and_imp(rb(hl(v), v), v), 1, 8)
i_andd8(v) ==
    Let(read_program_byte(v), LAMBDA p :
        R(i_and_imp(p.byte, p.vm), 2, 8))

\* --- INC / DEC

i_inc_impl(v, initial_val, final_val) ==
    set_flag(set_flag(set_flag(v, Flag.Z, final_val = 0),
                      Flag.H, And(initial_val, \h0F) + 1 > \h0F),
             Flag.N, FALSE)

i_incr(v, r) ==
    Let(reg(v, r), LAMBDA initial_val :
    Let(set_reg(v, r, wrapping_add8(reg(v, r), 1)), LAMBDA v1 :
    Let(reg(v1, r), LAMBDA final_val :
        R(i_inc_impl(v1, initial_val, final_val), 1, 4))))

i_inchlm(v) ==
    Let(rb(hl(v), v), LAMBDA initial_val :
    Let(wrapping_add8(initial_val, 1), LAMBDA final_val :
    Let(wb(hl(v), final_val, v), LAMBDA v1 :
        R(i_inc_impl(v1, initial_val, final_val), 1, 12))))

i_incr16(v, h, l) ==
    Let(get_r16(v, h, l), LAMBDA initial_val :
    Let(wrapping_add16(initial_val, 1), LAMBDA final_val :
        R(set_r16(v, h, l, final_val), 1, 8)))

i_incsp(v) == R(set_sp(v, wrapping_add16(sp(v), 1)), 1, 8)

i_dec_impl(v, initial_val, final_val) ==
    set_flag(set_flag(set_flag(v, Flag.Z, final_val = 0),
                      Flag.H, And(initial_val, \h0F) = 0),
             Flag.N, TRUE)

i_decr(v, r) ==
    Let(reg(v, r), LAMBDA initial_val :
    Let(wrapping_sub8(initial_val, 1), LAMBDA final_val :
    Let(set_reg(v, r, final_val), LAMBDA v1 :
        R(i_dec_impl(v1, initial_val, final_val), 1, 4))))

i_dechlm(v) ==
    Let(rb(hl(v), v), LAMBDA initial_val :
    Let(wrapping_sub8(initial_val, 1), LAMBDA final_val :
    Let(wb(hl(v), final_val, v), LAMBDA v1 :
        R(i_dec_impl(v1, initial_val, final_val), 1, 12))))

i_decr16(v, h, l) ==
    Let(get_r16(v, h, l), LAMBDA initial_val :
    Let(wrapping_sub16(initial_val, 1), LAMBDA final_val :
        R(set_r16(v, h, l, final_val), 1, 8)))

i_decsp(v) == R(set_sp(v, wrapping_sub16(sp(v), 1)), 1, 8)

\* --- CP / SUB / SBC / ADD / ADC.  The *_imp operators return [result, vm].

i_sub_imp(v, value) ==
    Let(reg(v, Register.A), LAMBDA a :
    Let(value, LAMBDA b :
    Let(wrapping_sub8(a, b), LAMBDA diff :
    Let(reset_flags(v), LAMBDA v1 :
    Let(set_flag(v1, Flag.Z, diff = 0), LAMBDA v2 :
    Let(set_flag(v2, Flag.N, TRUE), LAMBDA v3 :
    Let(set_flag(v3, Flag.H, And(\h0F, b) > And(\h0F, a)), LAMBDA v4 :
    Let(set_flag(v4, Flag.C, b > a), LAMBDA v5 :
        [result |-> diff, vm |-> v5]))))))))

i_cpr(v, src) == R(i_sub_imp(v, reg(v, src)).vm, 1, 4)
i_cphlm(v) == R(i_sub_imp(v, rb(hl(v), v)).vm, 1, 8)
i_cpd8(v) ==
    Let(read_program_byte(v), LAMBDA p :
        R(i_sub_imp(p.vm, p.byte).vm, 2, 8))

i_subr(v, src) ==
    Let(i_sub_imp(v, reg(v, src)), LAMBDA r :
        R(set_reg(r.vm, Register.A, r.result), 1, 4))
i_subhlm(v) ==
    Let(i_sub_imp(v, rb(hl(v), v)), LAMBDA r :
        R(set_reg(r.vm, Register.A, r.result), 1, 8))
i_subd8(v) ==
    Let(read_program_byte(v), LAMBDA p :
    Let(i_sub_imp(p.vm, p.byte), LAMBDA r :
        R(set_reg(r.vm, Register.A, r.result), 2, 8)))

\* A subtract-with-carry whose half-carry ignores the carry-in
i_sbc_imp_half_without_carry(v, value) ==
    Let(b2u(flag(v, Flag.C)), LAMBDA carry :
    Let(reg(v, Register.A), LAMBDA a :
    Let(value, LAMBDA b :
    Let(wrapping_sub8(wrapping_sub8(a, b), carry), LAMBDA diff :
    Let(reset_flags(v), LAMBDA v1 :
    Let(set_flag(v1, Flag.Z, diff = 0), LAMBDA v2 :
    Let(set_flag(v2, Flag.N, TRUE), LAMBDA v3 :
    Let(set_flag(v3, Flag.H, And(\h0F, b) > And(\h0F, a)), LAMBDA v4 :
    Let(set_flag(v4, Flag.C, carry + b > a), LAMBDA v5 :
        [result |-> diff, vm |-> v5])))))))))

i_sbc_imp(v, value) ==
    Let(b2u(flag(v, Flag.C)), LAMBDA carry :
    Let(reg(v, Register.A), LAMBDA a :
    Let(value, LAMBDA b :
    Let(wrapping_sub8(wrapping_sub8(a, b), carry), LAMBDA diff :
    Let(reset_flags(v), LAMBDA v1 :
    Let(set_flag(v1, Flag.Z, diff = 0), LAMBDA v2 :
    Let(set_flag(v2, Flag.N, TRUE), LAMBDA v3 :
    Let(set_flag(v3, Flag.H, And(\h0F, b) + carry > And(\h0F, a)), LAMBDA v4 :
    Let(set_flag(v4, Flag.C, carry + b > a), LAMBDA v5 :
        [result |-> diff, vm |-> v5])))))))))

i_sbcr(v, src) ==
    Let(i_sbc_imp(v, reg(v, src)), LAMBDA r :
        R(set_reg(r.vm, Register.A, r.result), 1, 4))
i_sbchlm(v) ==
    Let(i_sbc_imp(v, rb(hl(v), v)), LAMBDA r :
        R(set_reg(r.vm, Register.A, r.result), 1, 8))
i_sbcd8(v) ==
    Let(read_program_byte(v), LAMBDA p :
    Let(i_sbc_imp(p.vm, p.byte), LAMBDA r :
        R(set_reg(r.vm, Register.A, r.result), 2, 8)))

i_add_imp(v, value) ==
    Let(reg(v, Register.A), LAMBDA a :
    Let(value, LAMBDA b :
    Let(wrapping_add8(a, b), LAMBDA sum :
    Let(reset_flags(v), LAMBDA v1 :
    Let(set_flag(v1, Flag.Z, sum = 0), LAMBDA v2 :
    Let(set_flag(v2, Flag.N, FALSE), LAMBDA v3 :
    Let(set_flag(v3, Flag.H, And(\h0F, a) + And(\h0F, b) > \hF), LAMBDA v4 :
    Let(set_flag(v4, Flag.C, b + a > \hFF), LAMBDA v5 :
        [result |-> sum, vm |-> v5]))))))))

i_addr(v, src) ==
    Let(i_add_imp(v, reg(v, src)), LAMBDA r :
        R(set_reg(r.vm, Register.A, r.result), 1, 4))
i_addhlm(v) ==
    Let(i_add_imp(v, rb(hl(v), v)), LAMBDA r :
        R(set_reg(r.vm, Register.A, r.result), 1, 8))
i_addd8(v) ==
    Let(read_program_byte(v), LAMBDA p :
    Let(i_add_imp(p.vm, p.byte), LAMBDA r :
        R(set_reg(r.vm, Register.A, r.result), 2, 8)))

i_add_imp16(v, a, b) ==
    Let(wrapping_add16(a, b), LAMBDA sum :
    Let(set_flag(v, Flag.N, FALSE), LAMBDA v1 :
    Let(set_flag(v1, Flag.H, And(And(\h0FFF, a) + And(\h0FFF, b), \h1000) # 0), LAMBDA v2 :
    Let(set_flag(v2, Flag.C, b + a > \hFFFF), LAMBDA v3 :
        [result |-> sum, vm |-> v3]))))

i_addhlr16(v, h, l) ==
    Let(i_add_imp16(v, hl(v), get_r16(v, h, l)), LAMBDA r :
        R(set_hl(r.vm, r.result), 1, 8))

i_addhlsp(v) ==
    Let(i_add_imp16(v, hl(v), sp(v)), LAMBDA r :
        R(set_hl(r.vm, r.result), 1, 8))

\* (byte as i8) as u16: sign extension
sign_extend(byte) == IF byte >= \h80 THEN \hFF00 + byte ELSE byte

i_addspr8(v) ==
    Let(sp(v), LAMBDA a :
    Let(read_program_byte(v), LAMBDA p :
    Let(sign_extend(p.byte), LAMBDA b :
    Let(wrapping_add16(a, b), LAMBDA sum :
    Let(reset_flags(p.vm), LAMBDA v1 :
    Let(set_flag(v1, Flag.H, And(\h0F, a) + And(\h0F, b) > \h0F), LAMBDA v2 :
    Let(set_flag(v2, Flag.C, And(a, \hFF) + And(b, \hFF) > \hFF), LAMBDA v3 :
        R(set_sp(v3, sum), 1, 8))))))))

i_ldhlspr8(v) ==
    Let(sp(v), LAMBDA a :
    Let(read_program_byte(v), LAMBDA p :
    Let(sign_extend(p.byte), LAMBDA b :
    Let(wrapping_add16(a, b), LAMBDA sum :
    Let(reset_flags(p.vm), LAMBDA v1 :
    Let(set_flag(v1, Flag.H, And(\h0F, a) + And(\h0F, b) > \h0F), LAMBDA v2 :
    Let(set_flag(v2, Flag.C, And(a, \hFF) + And(b, \hFF) > \hFF), LAMBDA v3 :
        R(set_hl(v3, sum), 2, 12))))))))

i_adc_imp(v, value) ==
    Let(b2u(flag(v, Flag.C)), LAMBDA carry :
    Let(reg(v, Register.A), LAMBDA a :
    Let(value, LAMBDA b :
    Let(wrapping_add8(wrapping_add8(a, b), carry), LAMBDA sum :
    Let(reset_flags(v), LAMBDA v1 :
    Let(set_flag(v1, Flag.Z, sum = 0), LAMBDA v2 :
    Let(set_flag(v2, Flag.N, FALSE), LAMBDA v3 :
    Let(set_flag(v3, Flag.H, And(\h0F, a) + And(\h0F, b) + carry > \hF), LAMBDA v4 :
    Let(set_flag(v4, Flag.C, b + a + carry > \hFF), LAMBDA v5 :
        [result |-> sum, vm |-> v5])))))))))

i_adcr(v, src) ==
    Let(i_adc_imp(v, reg(v, src)), LAMBDA r :
        R(set_reg(r.vm, Register.A, r.result), 1, 4))
i_adchlm(v) ==
    Let(i_adc_imp(v, rb(hl(v), v)), LAMBDA r :
        R(set_reg(r.vm, Register.A, r.result), 1, 8))
i_adcd8(v) ==
    Let(read_program_byte(v), LAMBDA p :
    Let(i_adc_imp(p.vm, p.byte), LAMBDA r :
        R(set_reg(r.vm, Register.A, r.result), 2, 8)))

\* --- BIT

i_bitr(v, bit, src) ==
    Let(And(Shr(reg(v, src), bit), \h01), LAMBDA bit_value :
        R(set_flag(set_flag(set_flag(v, Flag.Z, bit_value = 0), Flag.N, FALSE),
                   Flag.H, TRUE), 2, 8))

i_bithlm(v, bit) ==
    Let(rb(hl(v), v), LAMBDA value :
    Let(And(Shr(value, bit), \h01), LAMBDA bit_value :
        R(set_flag(set_flag(set_flag(v, Flag.Z, bit_value = 0), Flag.N, FALSE),
                   Flag.H, TRUE), 2, 16)))

\* --- Jumps, stack, calls and returns

i_jr(v) ==
    Let(read_program_byte(v), LAMBDA p :
    Let(p.byte, LAMBDA byte :
        IF byte <= \h7F
        THEN R(set_pc(p.vm, wrapping_add16(pc(p.vm), byte)), 2, 12)
        ELSE R(set_pc(p.vm, wrapping_sub16(pc(p.vm), \hFF - byte + 1)), 2, 12)))

i_jrf(v, f) ==
    IF flag(v, f) THEN R(i_jr(v).vm, 2, 12)
    ELSE R(read_program_byte(v).vm, 2, 8)

\* A conditional jump that leaves its displacement unread when not taken
i_jrnf_operand_unread(v, f) ==
    IF flag(v, f) THEN R(v, 2, 8)
    ELSE R(i_jr(v).vm, 2, 12)

i_jrnf(v, f) ==
    IF flag(v, f) THEN R(read_program_byte(v).vm, 2, 8)
    ELSE R(i_jr(v).vm, 2, 12)

i_jp(v) ==
    Let(read_program_word(v), LAMBDA p :
        R(set_pc(p.vm, p.word), 3, 16))

i_jphl(v) == R(set_pc(v, hl(v)), 3, 16)

i_jpf(v, f) ==
    IF flag(v, f) THEN R(i_jp(v).vm, 3, 16)
    ELSE R(read_program_word(v).vm, 3, 12)

i_jpnf(v, f) ==
    IF flag(v, f) THEN R(read_program_word(v).vm, 3, 12)
    ELSE R(i_jp(v).vm, 3, 16)

\* A push that stores at the old SP and moves SP afterwards
i_push_post_decrement(v, h, l) ==
    Let(ww(sp(v), get_r16(v, h, l), v), LAMBDA v1 :
        R(set_sp(v1, wrapping_sub16(sp(v1), 2)), 1, 16))

i_push(v, h, l) ==
    Let(set_sp(v, wrapping_sub16(sp(v), 2)), LAMBDA v1 :
        R(ww(sp(v1), get_r16(v1, h, l), v1), 1, 16))

i_pop(v, h, l) ==
    Let(rw(sp(v), v), LAMBDA value :
    Let(set_r16(v, h, l, value), LAMBDA v1 :
    Let(set_sp(v1, wrapping_add16(sp(v1), 2)), LAMBDA v2 :
        R(IF addr_overflows(sp(v)) THEN panic(v2) ELSE v2, 1, 16))))

i_call(v) ==
    Let(read_program_word(v), LAMBDA p :
    Let(set_sp(p.vm, wrapping_sub16(sp(p.vm), 2)), LAMBDA v1 :
    Let(ww(sp(v1), pc(v1), v1), LAMBDA v2 :
        R(set_pc(v2, p.word), 3, 24))))

i_callf(v, f) ==
    IF flag(v, f) THEN R(i_call(v).vm, 3, 24)
    ELSE R(read_program_word(v).vm, 3, 12)

i_callnf(v, f) ==
    IF flag(v, f) THEN R(read_program_word(v).vm, 3, 12)
    ELSE R(i_call(v).vm, 3, 24)

i_ret(v) ==
    Let(set_pc(v, rw(sp(v), v)), LAMBDA v1 :
    Let(set_sp(v1, wrapping_add16(sp(v1), 2)), LAMBDA v2 :
        R(IF addr_overflows(sp(v)) THEN panic(v2) ELSE v2, 1, 16)))

\* A RETI that enabled interrupts one instruction later, as EI does
i_reti_deferred(v) == i_ret([v EXCEPT !.cpu.interrupt = "IEnableNextInst"])

i_reti(v) == i_ret([v EXCEPT !.cpu.interrupt = "IEnabled"])

i_retf(v, f) ==
    IF flag(v, f) THEN R(i_ret(v).vm, 1, 20)
    ELSE R(v, 1, 8)

i_retnf(v, f) ==
    IF flag(v, f) THEN R(v, 1, 8)
    ELSE R(i_ret(v).vm, 1, 20)

\* --- Rotates and shifts.  The *_imp operators return [result, vm].

i_rl_imp(value, v) ==
    Let(b2u(flag(v, Flag.C)), LAMBDA carry :
    Let(Or(Shl8(value, 1), carry), LAMBDA result :
    Let(reset_flags(v), LAMBDA v1 :
    Let(set_flag(v1, Flag.C, And(value, \h80) # 0), LAMBDA v2 :
    Let(set_flag(v2, Flag.Z, result = 0), LAMBDA v3 :
        [result |-> result, vm |-> v3])))))

i_rl(v, r) ==
    Let(i_rl_imp(reg(v, r), v), LAMBDA x :
        R(set_reg(x.vm, r, x.result), 2, 8))

\* An RLA that keeps the Zero flag of the register form
i_rla_keeps_zero(v) == R(i_rl(v, Register.A).vm, 2, 8)

i_rla(v) == R(set_flag(i_rl(v, Register.A).vm, Flag.Z, FALSE), 2, 8)

i_rlhlm(v) ==
    Let(i_rl_imp(rb(hl(v), v), v), LAMBDA x :
        R(wb(hl(x.vm), x.result, x.vm), 2, 16))

i_rr_imp(value, v) ==
    Let(b2u(flag(v, Flag.C)), LAMBDA carry :
    Let(Or(Shr(value, 1), Shl8(carry, 7)), LAMBDA result :
    Let(reset_flags(v), LAMBDA v1 :
    Let(set_flag(v1, Flag.C, And(value, \h01) # 0), LAMBDA v2 :
    Let(set_flag(v2, Flag.Z, result = 0), LAMBDA v3 :
        [result |-> result, vm |-> v3])))))

i_rr(v, r) ==
    Let(i_rr_imp(reg(v, r), v), LAMBDA x :
        R(set_reg(x.vm, r, x.result), 2, 8))

i_rra(v) == R(set_flag(i_rr(v, Register.A).vm, Flag.Z, FALSE), 1, 4)

i_rrhlm(v) ==
    Let(i_rr_imp(rb(hl(v), v), v), LAMBDA x :
        R(wb(hl(x.vm), x.result, x.vm), 2, 16))

i_sla_imp(value, v) ==
    Let(Shl8(value, 1), LAMBDA result :
    Let(reset_flags(v), LAMBDA v1 :
    Let(set_flag(v1, Flag.C, And(value, \h80) # 0), LAMBDA v2 :
    Let(set_flag(v2, Flag.Z, result = 0), LAMBDA v3 :
        [result |-> result, vm |-> v3]))))

i_sla(v, r) ==
    Let(i_sla_imp(reg(v, r), v), LAMBDA x :
        R(set_reg(x.vm, r, x.result), 2, 8))

i_slahlm(v) ==
    Let(i_sla_imp(rb(hl(v), v), v), LAMBDA x :
        R(wb(hl(x.vm), x.result, x.vm), 2, 16))

i_sra_imp(value, v) ==
    Let(Or(Shr(value, 1), And(value, \h80)), LAMBDA result :
    Let(reset_flags(v), LAMBDA v1 :
    Let(set_flag(v1, Flag.C, And(value, \h01) # 0), LAMBDA v2 :
    Let(set_flag(v2, Flag.Z, result = 0), LAMBDA v3 :
        [result |-> result, vm |-> v3]))))

i_sra(v, r) ==
    Let(i_sra_imp(reg(v, r), v), LAMBDA x :
        R(set_reg(x.vm, r, x.result), 2, 8))

i_srahlm(v) ==
    Let(i_sra_imp(rb(hl(v), v), v), LAMBDA x :
        R(wb(hl(x.vm), x.result, x.vm), 2, 16))

i_srl_imp(value, v) ==
    Let(Shr(value, 1), LAMBDA result :
    Let(reset_flags(v), LAMBDA v1 :
    Let(set_flag(v1, Flag.C, And(value, \h01) # 0), LAMBDA v2 :
    Let(set_flag(v2, Flag.Z, result = 0), LAMBDA v3 :
        [result |-> result, vm |-> v3]))))

i_srl(v, r) ==
    Let(i_srl_imp(reg(v, r), v), LAMBDA x :
        R(set_reg(x.vm, r, x.result), 2, 8))

i_srlhlm(v) ==
    Let(i_srl_imp(rb(hl(v), v), v), LAMBDA x :
        R(wb(hl(x.vm), x.result, x.vm), 2, 16))

\* A rotation through Carry: bit 0 comes from the Carry flag
i_rlc_imp_through_carry(value, v) ==
    Let(Or(Shl8(value, 1), b2u(flag(v, Flag.C))), LAMBDA result :
    Let(reset_flags(v), LAMBDA v1 :
    Let(set_flag(v1, Flag.C, Shr(value, 7) # 0), LAMBDA v2 :
    Let(set_flag(v2, Flag.Z, result = 0), LAMBDA v3 :
        [result |-> result, vm |-> v3]))))

i_rlc_imp(value, v) ==
    Let(Or(Shl8(value, 1), Shr(value, 7)), LAMBDA result :
    Let(reset_flags(v), LAMBDA v1 :
    Let(set_flag(v1, Flag.C, Shr(value, 7) # 0), LAMBDA v2 :
    Let(set_flag(v2, Flag.Z, result = 0), LAMBDA v3 :
        [result |-> result, vm |-> v3]))))

i_rlc(v, r) ==
    Let(i_rlc_imp(reg(v, r), v), LAMBDA x :
        R(set_reg(x.vm, r, x.result), 2, 8))

i_rlca(v) == R(set_flag(i_rlc(v, Register.A).vm, Flag.Z, FALSE), 1, 4)

i_rlchlm(v) ==
    Let(i_rlc_imp(rb(hl(v), v), v), LAMBDA x :
        R(wb(hl(x.vm), x.result, x.vm), 2, 16))

i_rrc_imp(value, v) ==
    Let(Or(Shr(value, 1), Shl8(value, 7)), LAMBDA result :
    Let(reset_flags(v), LAMBDA v1 :
    Let(set_flag(v1, Flag.C, And(value, \h01) # 0), LAMBDA v2 :
    Let(set_flag(v2, Flag.Z, result = 0), LAMBDA v3 :
        [result |-> result, vm |-> v3]))))

i_rrc(v, r) ==
    Let(i_rrc_imp(reg(v, r), v), LAMBDA x :
        R(set_reg(x.vm, r, x.result), 2, 8))

i_rrca(v) == R(set_flag(i_rrc(v, Register.A).vm, Flag.Z, FALSE), 1, 4)

i_rrchlm(v) ==
    Let(i_rrc_imp(rb(hl(v), v), v), LAMBDA x :
        R(wb(hl(x.vm), x.result, x.vm), 2, 16))

\* --- DI / EI, CPL / CCF / SCF, RST, SET / RES, DAA, invalid opcodes

i_di(v) == R([v EXCEPT !.cpu.interrupt = "IDisableNextInst"], 1, 4)

i_ei(v) == R([v EXCEPT !.cpu.interrupt = "IEnableNextInst"], 1, 4)

i_cpl(v) ==
    Let(set_reg(v, Register.A, Not8(reg(v, Register.A))), LAMBDA v1 :
        R(set_flag(set_flag(v1, Flag.N, TRUE), Flag.H, TRUE), 1, 4))

i_ccf(v) ==
    Let(flag(v, Flag.C), LAMBDA carry :
        R(set_flag(set_flag(set_flag(v, Flag.C, ~carry), Flag.N, FALSE),
                   Flag.H, FALSE), 1, 4))

\* A restart that jumps without saving the return address
i_rst_no_push(v, addr) == R(set_pc(v, addr), 1, 16)

i_rst(v, addr) ==
    Let(set_sp(v, wrapping_sub16(sp(v), 2)), LAMBDA v1 :
    Let(ww(sp(v1), pc(v1), v1), LAMBDA v2 :
        R(set_pc(v2, addr), 1, 16)))

i_scf(v) ==
    R(set_flag(set_flag(set_flag(v, Flag.N, FALSE), Flag.H, FALSE), Flag.C, TRUE),
      1, 4)

i_set(v, bit, r) == R(set_reg(v, r, Or(reg(v, r), Shl8(1, bit))), 2, 8)

i_sethlm(v, bit) ==
    Let(rb(hl(v), v), LAMBDA value :
    Let(Or(value, Shl8(1, bit)), LAMBDA result :
        R(wb(hl(v), result, v), 2, 16)))

i_res(v, bit, r) == R(set_reg(v, r, And(reg(v, r), Not8(Shl8(1, bit)))), 2, 8)

i_reshlm(v, bit) ==
    Let(rb(hl(v), v), LAMBDA value :
    Let(And(value, Not8(Shl8(1, bit))), LAMBDA result :
        R(wb(hl(v), result, v), 2, 16)))

\* result is a u16: the two subtractions underflow it when A is small, which
\* aborts a build with overflow checks and wraps mod 2^16 in one without.
\* A decimal adjust that loses the carry out of the high digit
i_daa_no_carry_out(v) ==
    Let(flag(v, Flag.C), LAMBDA c :
    Let(flag(v, Flag.H), LAMBDA h :
    Let(flag(v, Flag.N), LAMBDA n :
    Let(reg(v, Register.A), LAMBDA a :
    Let(IF h THEN And(wrapping_sub16(a, \h06), \hFF) ELSE a, LAMBDA s1 :
    Let(IF c THEN wrapping_sub16(s1, \h60) ELSE s1, LAMBDA s2 :
    Let((h /\ a < \h06) \/ (c /\ s1 < \h60), LAMBDA underflow :
    Let(IF h \/ And(a, \hF) > 9 THEN a + \h06 ELSE a, LAMBDA a1 :
    Let(IF c \/ a1 > \h9F THEN a1 + \h60 ELSE a1, LAMBDA a2 :
    Let(IF n THEN s2 ELSE a2, LAMBDA result :
    Let(set_reg(v, Register.A, result % 256), LAMBDA v1 :
    Let(set_flag(v1, Flag.Z, result = 0), LAMBDA v2 :
    Let(set_flag(v2, Flag.H, FALSE), LAMBDA v3 :
        R(IF n /\ underflow /\ overflow_checks THEN panic(v3) ELSE v3, 1, 4))))))))))))))

i_daa(v) ==
    Let(flag(v, Flag.C), LAMBDA c :
    Let(flag(v, Flag.H), LAMBDA h :
    Let(flag(v, Flag.N), LAMBDA n :
    Let(reg(v, Register.A), LAMBDA a :
    Let(IF h THEN And(wrapping_sub16(a, \h06), \hFF) ELSE a, LAMBDA s1 :
    Let(IF c THEN wrapping_sub16(s1, \h60) ELSE s1, LAMBDA s2 :
    Let((h /\ a < \h06) \/ (c /\ s1 < \h60), LAMBDA underflow :
    Let(IF h \/ And(a, \hF) > 9 THEN a + \h06 ELSE a, LAMBDA a1 :
    Let(IF c \/ a1 > \h9F THEN a1 + \h60 ELSE a1, LAMBDA a2 :
    Let(IF n THEN s2 ELSE a2, LAMBDA result :
    Let(set_reg(v, Register.A, result % 256), LAMBDA v1 :
    Let(set_flag(v1, Flag.Z, result = 0), LAMBDA v2 :
    Let(set_flag(v2, Flag.H, FALSE), LAMBDA v3 :
    Let(IF And(result, \h100) # 0 THEN set_flag(v3, Flag.C, TRUE) ELSE v3, LAMBDA v4 :
        R(IF n /\ underflow /\ overflow_checks THEN panic(v4) ELSE v4, 1, 4)))))))))))))))

\* An undefined opcode that stops the emulator
i_invalid_aborts(v, opcode) == R(panic(v), 1, 4)

i_invalid(v, opcode) == R(v, 1, 4)

\* 0x76 HALT and the 0xCB slot of the primary table: Clock::default()
\* A HALT that costs what NOP costs
i_default_as_nop(v) == R(v, 1, 4)

i_default(v) == R(v, 0, 0)

-----------------------------------------------------------------------------
\* --- Opcode tables

dispatch(opcode, v) ==
    CASE opcode = \h00 -> i_nop(v)
      [] opcode = \h01 -> i_ldr16d16(v, Register.B, Register.C)
      [] opcode = \h02 -> i_ldr16mr(v, Register.B, Register.C, Register.A)
      [] opcode = \h03 -> i_incr16(v, Register.B, Register.C)
      [] opcode = \h04 -> i_incr(v, Register.B)
      [] opcode = \h05 -> i_decr(v, Register.B)
      [] opcode = \h06 -> i_ldrd8(v, Register.B)
      [] opcode = \h07 -> i_rlca(v)
      [] opcode = \h08 -> i_lda16msp(v)
      [] opcode = \h09 -> i_addhlr16(v, Register.B, Register.C)
      [] opcode = \h0A -> i_ldrr16m(v, Register.A, Register.B, Register.C)
      [] opcode = \h0B -> i_decr16(v, Register.B, Register.C)
      [] opcode = \h0C -> i_incr(v, Register.C)
      [] opcode = \h0D -> i_decr(v, Register.C)
      [] opcode = \h0E -> i_ldrd8(v, Register.C)
      [] opcode = \h0F -> i_rrca(v)
      [] opcode = \h10 -> i_nop(v)
      [] opcode = \h11 -> i_ldr16d16(v, Register.D, Register.E)
      [] opcode = \h12 -> i_ldr16mr(v, Register.D, Register.E, Register.A)
      [] opcode = \h13 -> i_incr16(v, Register.D, Register.E)
      [] opcode = \h14 -> i_incr(v, Register.D)
      [] opcode = \h15 -> i_decr(v, Register.D)
      [] opcode = \h16 -> i_ldrd8(v, Register.D)
      [] opcode = \h17 -> i_rla(v)
      [] opcode = \h18 -> i_jr(v)
      [] opcode = \h19 -> i_addhlr16(v, Register.D, Register.E)
      [] opcode = \h1A -> i_ldrr16m(v, Register.A, Register.D, Register.E)
      [] opcode = \h1B -> i_decr16(v, Register.D, Register.E)
      [] opcode = \h1C -> i_incr(v, Register.E)
      [] opcode = \h1D -> i_decr(v, Register.E)
      [] opcode = \h1E -> i_ldrd8(v, Register.E)
      [] opcode = \h1F -> i_rra(v)
      [] opcode = \h20 -> i_jrnf(v, Flag.Z)
      [] opcode = \h21 -> i_ldr16d16(v, Register.H, Register.L)
      [] opcode = \h22 -> i_ldihlma(v)
      [] opcode = \h23 -> i_incr16(v, Register.H, Register.L)
      [] opcode = \h24 -> i_incr(v, Register.H)
      [] opcode = \h25 -> i_decr(v, Register.H)
      [] opcode = \h26 -> i_ldrd8(v, Register.H)
      [] opcode = \h27 -> i_daa(v)
      [] opcode = \h28 -> i_jrf(v, Flag.Z)
      [] opcode = \h29 -> i_addhlr16(v, Register.H, Register.L)
      [] opcode = \h2A -> i_ldiahlm(v)
      [] opcode = \h2B -> i_decr16(v, Register.H, Register.L)
      [] opcode = \h2C -> i_incr(v, Register.L)
      [] opcode = \h2D -> i_decr(v, Register.L)
      [] opcode = \h2E -> i_ldrd8(v, Register.L)
      [] opcode = \h2F -> i_cpl(v)
      [] opcode = \h30 -> i_jrnf(v, Flag.C)
      [] opcode = \h31 -> i_ldspd16(v)
      [] opcode = \h32 -> i_lddhlma(v)
      [] opcode = \h33 -> i_incsp(v)
      [] opcode = \h34 -> i_inchlm(v)
      [] opcode = \h35 -> i_dechlm(v)
      [] opcode = \h36 -> i_ldhlmd8(v)
      [] opcode = \h37 -> i_scf(v)
      [] opcode = \h38 -> i_jrf(v, Flag.C)
      [] opcode = \h39 -> i_addhlsp(v)
      [] opcode = \h3A -> i_lddahlm(v)
      [] opcode = \h3B -> i_decsp(v)
      [] opcode = \h3C -> i_incr(v, Register.A)
      [] opcode = \h3D -> i_decr(v, Register.A)
      [] opcode = \h3E -> i_ldrd8(v, Register.A)
      [] opcode = \h3F -> i_ccf(v)
      [] opcode = \h40 -> i_ldrr(v, Register.B, Register.B)
      [] opcode = \h41 -> i_ldrr(v, Register.B, Register.C)
      [] opcode = \h42 -> i_ldrr(v, Register.B, Register.D)
      [] opcode = \h43 -> i_ldrr(v, Register.B, Register.E)
      [] opcode = \h44 -> i_ldrr(v, Register.B, Register.H)
      [] opcode = \h45 -> i_ldrr(v, Register.B, Register.L)
      [] opcode = \h46 -> i_ldrr16m(v, Register.B, Register.H, Register.L)
      [] opcode = \h47 -> i_ldrr(v, Register.B, Register.A)
      [] opcode = \h48 -> i_ldrr(v, Register.C, Register.B)
      [] opcode = \h49 -> i_ldrr(v, Register.C, Register.C)
      [] opcode = \h4A -> i_ldrr(v, Register.C, Register.D)
      [] opcode = \h4B -> i_ldrr(v, Register.C, Register.E)
      [] opcode = \h4C -> i_ldrr(v, Register.C, Register.H)
      [] opcode = \h4D -> i_ldrr(v, Register.C, Register.L)
      [] opcode = \h4E -> i_ldrr16m(v, Register.C, Register.H, Register.L)
      [] opcode = \h4F -> i_ldrr(v, Register.C, Register.A)
      [] opcode = \h50 -> i_ldrr(v, Register.D, Register.B)
      [] opcode = \h51 -> i_ldrr(v, Register.D, Register.C)
      [] opcode = \h52 -> i_ldrr(v, Register.D, Register.D)
      [] opcode = \h53 -> i_ldrr(v, Register.D, Register.E)
      [] opcode = \h54 -> i_ldrr(v, Register.D, Register.H)
      [] opcode = \h55 -> i_ldrr(v, Register.D, Register.L)
      [] opcode = \h56 -> i_ldrr16m(v, Register.D, Register.H, Register.L)
      [] opcode = \h57 -> i_ldrr(v, Register.D, Register.A)
      [] opcode = \h58 -> i_ldrr(v, Register.E, Register.B)
      [] opcode = \h59 -> i_ldrr(v, Register.E, Register.C)
      [] opcode = \h5A -> i_ldrr(v, Register.E, Register.D)
      [] opcode = \h5B -> i_ldrr(v, Register.E, Register.E)
      [] opcode = \h5C -> i_ldrr(v, Register.E, Register.H)
      [] opcode = \h5D -> i_ldrr(v, Register.E, Register.L)
      [] opcode = \h5E -> i_ldrr16m(v, Register.E, Register.H, Register.L)
      [] opcode = \h5F -> i_ldrr(v, Register.E, Register.A)
      [] opcode = \h60 -> i_ldrr(v, Register.H, Register.B)
      [] opcode = \h61 -> i_ldrr(v, Register.H, Register.C)
      [] opcode = \h62 -> i_ldrr(v, Register.H, Register.D)
      [] opcode = \h63 -> i_ldrr(v, Register.H, Register.E)
      [] opcode = \h64 -> i_ldrr(v, Register.H, Register.H)
      [] opcode = \h65 -> i_ldrr(v, Register.H, Register.L)
      [] opcode = \h66 -> i_ldrr16m(v, Register.H, Register.H, Register.L)
      [] opcode = \h67 -> i_ldrr(v, Register.H, Register.A)
      [] opcode = \h68 -> i_ldrr(v, Register.L, Register.B)
      [] opcode = \h69 -> i_ldrr(v, Register.L, Register.C)
      [] opcode = \h6A -> i_ldrr(v, Register.L, Register.D)
      [] opcode = \h6B -> i_ldrr(v, Register.L, Register.E)
      [] opcode = \h6C -> i_ldrr(v, Register.L, Register.H)
      [] opcode = \h6D -> i_ldrr(v, Register.L, Register.L)
      [] opcode = \h6E -> i_ldrr16m(v, Register.L, Register.H, Register.L)
      [] opcode = \h6F -> i_ldrr(v, Register.L, Register.A)
      [] opcode = \h70 -> i_ldr16mr(v, Register.H, Register.L, Register.B)
      [] opcode = \h71 -> i_ldr16mr(v, Register.H, Register.L, Register.C)
      [] opcode = \h72 -> i_ldr16mr(v, Register.H, Register.L, Register.D)
      [] opcode = \h73 -> i_ldr16mr(v, Register.H, Register.L, Register.E)
      [] opcode = \h74 -> i_ldr16mr(v, Register.H, Register.L, Register.H)
      [] opcode = \h75 -> i_ldr16mr(v, Register.H, Register.L, Register.L)
      [] opcode = \h76 -> i_default(v)
      [] opcode = \h77 -> i_ldr16mr(v, Register.H, Register.L, Register.A)
      [] opcode = \h78 -> i_ldrr(v, Register.A, Register.B)
      [] opcode = \h79 -> i_ldrr(v, Register.A, Register.C)
      [] opcode = \h7A -> i_ldrr(v, Register.A, Register.D)
      [] opcode = \h7B -> i_ldrr(v, Register.A, Register.E)
      [] opcode = \h7C -> i_ldrr(v, Register.A, Register.H)
      [] opcode = \h7D -> i_ldrr(v, Register.A, Register.L)
      [] opcode = \h7E -> i_ldrr16m(v, Register.A, Register.H, Register.L)
      [] opcode = \h7F -> i_ldrr(v, Register.A, Register.A)
      [] opcode = \h80 -> i_addr(v, Register.B)
      [] opcode = \h81 -> i_addr(v, Register.C)
      [] opcode = \h82 -> i_addr(v, Register.D)
      [] opcode = \h83 -> i_addr(v, Register.E)
      [] opcode = \h84 -> i_addr(v, Register.H)
      [] opcode = \h85 -> i_addr(v, Register.L)
      [] opcode = \h86 -> i_addhlm(v)
      [] opcode = \h87 -> i_addr(v, Register.A)
      [] opcode = \h88 -> i_adcr(v, Register.B)
      [] opcode = \h89 -> i_adcr(v, Register.C)
      [] opcode = \h8A -> i_adcr(v, Register.D)
      [] opcode = \h8B -> i_adcr(v, Register.E)
      [] opcode = \h8C -> i_adcr(v, Register.H)
      [] opcode = \h8D -> i_adcr(v, Register.L)
      [] opcode = \h8E -> i_adchlm(v)
      [] opcode = \h8F -> i_adcr(v, Register.A)
      [] opcode = \h90 -> i_subr(v, Register.B)
      [] opcode = \h91 -> i_subr(v, Register.C)
      [] opcode = \h92 -> i_subr(v, Register.D)
      [] opcode = \h93 -> i_subr(v, Register.E)
      [] opcode = \h94 -> i_subr(v, Register.H)
      [] opcode = \h95 -> i_subr(v, Register.L)
      [] opcode = \h96 -> i_subhlm(v)
      [] opcode = \h97 -> i_subr(v, Register.A)
      [] opcode = \h98 -> i_sbcr(v, Register.B)
      [] opcode = \h99 -> i_sbcr(v, Register.C)
      [] opcode = \h9A -> i_sbcr(v, Register.D)
      [] opcode = \h9B -> i_sbcr(v, Register.E)
      [] opcode = \h9C -> i_sbcr(v, Register.H)
      [] opcode = \h9D -> i_sbcr(v, Register.L)
      [] opcode = \h9E -> i_sbchlm(v)
      [] opcode = \h9F -> i_sbcr(v, Register.A)
      [] opcode = \hA0 -> i_andr(v, Register.B)
      [] opcode = \hA1 -> i_andr(v, Register.C)
      [] opcode = \hA2 -> i_andr(v, Register.D)
      [] opcode = \hA3 -> i_andr(v, Register.E)
      [] opcode = \hA4 -> i_andr(v, Register.H)
      [] opcode = \hA5 -> i_andr(v, Register.L)
      [] opcode = \hA6 -> i_andhlm(v)
      [] opcode = \hA7 -> i_andr(v, Register.A)
      [] opcode = \hA8 -> i_xorr(v, Register.B)
      [] opcode = \hA9 -> i_xorr(v, Register.C)
      [] opcode = \hAA -> i_xorr(v, Register.D)
      [] opcode = \hAB -> i_xorr(v, Register.E)
      [] opcode = \hAC -> i_xorr(v, Register.H)
      [] opcode = \hAD -> i_xorr(v, Register.L)
      [] opcode = \hAE -> i_xorhlm(v)
      [] opcode = \hAF -> i_xorr(v, Register.A)
      [] opcode = \hB0 -> i_orr(v, Register.B)
      [] opcode = \hB1 -> i_orr(v, Register.C)
      [] opcode = \hB2 -> i_orr(v, Register.D)
      [] opcode = \hB3 -> i_orr(v, Register.E)
      [] opcode = \hB4 -> i_orr(v, Register.H)
      [] opcode = \hB5 -> i_orr(v, Register.L)
      [] opcode = \hB6 -> i_orhlm(v)
      [] opcode = \hB7 -> i_orr(v, Register.A)
      [] opcode = \hB8 -> i_cpr(v, Register.B)
      [] opcode = \hB9 -> i_cpr(v, Register.C)
      [] opcode = \hBA -> i_cpr(v, Register.D)
      [] opcode = \hBB -> i_cpr(v, Register.E)
      [] opcode = \hBC -> i_cpr(v, Register.H)
      [] opcode = \hBD -> i_cpr(v, Register.L)
      [] opcode = \hBE -> i_cphlm(v)
      [] opcode = \hBF -> i_cpr(v, Register.A)
      [] opcode = \hC0 -> i_retnf(v, Flag.Z)
      [] opcode = \hC1 -> i_pop(v, Register.B, Register.C)
      [] opcode = \hC2 -> i_jpnf(v, Flag.Z)
      [] opcode = \hC3 -> i_jp(v)
      [] opcode = \hC4 -> i_callnf(v, Flag.Z)
      [] opcode = \hC5 -> i_push(v, Register.B, Register.C)
      [] opcode = \hC6 -> i_addd8(v)
      [] opcode = \hC7 -> i_rst(v, \h00)
      [] opcode = \hC8 -> i_retf(v, Flag.Z)
      [] opcode = \hC9 -> i_ret(v)
      [] opcode = \hCA -> i_jpf(v, Flag.Z)
      [] opcode = \hCB -> i_default(v)
      [] opcode = \hCC -> i_callf(v, Flag.Z)
      [] opcode = \hCD -> i_call(v)
      [] opcode = \hCE -> i_adcd8(v)
      [] opcode = \hCF -> i_rst(v, \h08)
      [] opcode = \hD0 -> i_retnf(v, Flag.C)
      [] opcode = \hD1 -> i_pop(v, Register.D, Register.E)
      [] opcode = \hD2 -> i_jpnf(v, Flag.C)
      [] opcode = \hD3 -> i_invalid(v, \hD3)
      [] opcode = \hD4 -> i_callnf(v, Flag.C)
      [] opcode = \hD5 -> i_push(v, Register.D, Register.E)
      [] opcode = \hD6 -> i_subd8(v)
      [] opcode = \hD7 -> i_rst(v, \h10)
      [] opcode = \hD8 -> i_retf(v, Flag.C)
      [] opcode = \hD9 -> i_reti(v)
      [] opcode = \hDA -> i_jpf(v, Flag.C)
      [] opcode = \hDB -> i_invalid(v, \hDB)
      [] opcode = \hDC -> i_callf(v, Flag.C)
      [] opcode = \hDD -> i_invalid(v, \hDD)
      [] opcode = \hDE -> i_sbcd8(v)
      [] opcode = \hDF -> i_rst(v, \h18)
      [] opcode = \hE0 -> i_ldha8ma(v)
      [] opcode = \hE1 -> i_pop(v, Register.H, Register.L)
      [] opcode = \hE2 -> i_ldcma(v)
      [] opcode = \hE3 -> i_invalid(v, \hE3)
      [] opcode = \hE4 -> i_invalid(v, \hE4)
      [] opcode = \hE5 -> i_push(v, Register.H, Register.L)
      [] opcode = \hE6 -> i_andd8(v)
      [] opcode = \hE7 -> i_rst(v, \h20)
      [] opcode = \hE8 -> i_addspr8(v)
      [] opcode = \hE9 -> i_jphl(v)
      [] opcode = \hEA -> i_lda16ma(v)
      [] opcode = \hEB -> i_invalid(v, \hEB)
      [] opcode = \hEC -> i_invalid(v, \hEC)
      [] opcode = \hED -> i_invalid(v, \hED)
      [] opcode = \hEE -> i_xord8(v)
      [] opcode = \hEF -> i_rst(v, \h28)
      [] opcode = \hF0 -> i_ldhaa8m(v)
      [] opcode = \hF1 -> i_pop(v, Register.A, Register.F)
      [] opcode = \hF2 -> i_ldacm(v)
      [] opcode = \hF3 -> i_di(v)
      [] opcode = \hF4 -> i_invalid(v, \hF4)
      [] opcode = \hF5 -> i_push(v, Register.A, Register.F)
      [] opcode = \hF6 -> i_ord8(v)
      [] opcode = \hF7 -> i_rst(v, \h30)
      [] opcode = \hF8 -> i_ldhlspr8(v)
      [] opcode = \hF9 -> i_ldsphl(v)
      [] opcode = \hFA -> i_ldaa16m(v)
      [] opcode = \hFB -> i_ei(v)
      [] opcode = \hFC -> i_invalid(v, \hFC)
      [] opcode = \hFD -> i_invalid(v, \hFD)
      [] opcode = \hFE -> i_cpd8(v)
      [] opcode = \hFF -> i_rst(v, \h38)

dispatch_cb(opcode, v) ==
    CASE opcode = \h00 -> i_rlc(v, Register.B)
      [] opcode = \h01 -> i_rlc(v, Register.C)
      [] opcode = \h02 -> i_rlc(v, Register.D)
      [] opcode = \h03 -> i_rlc(v, Register.E)
      [] opcode = \h04 -> i_rlc(v, Register.H)
      [] opcode = \h05 -> i_rlc(v, Register.L)
      [] opcode = \h06 -> i_rlchlm(v)
      [] opcode = \h07 -> i_rlc(v, Register.A)
      [] opcode = \h08 -> i_rrc(v, Register.B)
      [] opcode = \h09 -> i_rrc(v, Register.C)
      [] opcode = \h0A -> i_rrc(v, Register.D)
      [] opcode = \h0B -> i_rrc(v, Register.E)
      [] opcode = \h0C -> i_rrc(v, Register.H)
      [] opcode = \h0D -> i_rrc(v, Register.L)
      [] opcode = \h0E -> i_rrchlm(v)
      [] opcode = \h0F -> i_rrc(v, Register.A)
      [] opcode = \h10 -> i_rl(v, Register.B)
      [] opcode = \h11 -> i_rl(v, Register.C)
      [] opcode = \h12 -> i_rl(v, Register.D)
      [] opcode = \h13 -> i_rl(v, Register.E)
      [] opcode = \h14 -> i_rl(v, Register.H)
      [] opcode = \h15 -> i_rl(v, Register.L)
      [] opcode = \h16 -> i_rlhlm(v)
      [] opcode = \h17 -> i_rl(v, Register.A)
      [] opcode = \h18 -> i_rr(v, Register.B)
      [] opcode = \h19 -> i_rr(v, Register.C)
      [] opcode = \h1A -> i_rr(v, Register.D)
      [] opcode = \h1B -> i_rr(v, Register.E)
      [] opcode = \h1C -> i_rr(v, Register.H)
      [] opcode = \h1D -> i_rr(v, Register.L)
      [] opcode = \h1E -> i_rrhlm(v)
      [] opcode = \h1F -> i_rr(v, Register.A)
      [] opcode = \h20 -> i_sla(v, Register.B)
      [] opcode = \h21 -> i_sla(v, Register.C)
      [] opcode = \h22 -> i_sla(v, Register.D)
      [] opcode = \h23 -> i_sla(v, Register.E)
      [] opcode = \h24 -> i_sla(v, Register.H)
      [] opcode = \h25 -> i_sla(v, Register.L)
      [] opcode = \h26 -> i_slahlm(v)
      [] opcode = \h27 -> i_sla(v, Register.A)
      [] opcode = \h28 -> i_sra(v, Register.B)
      [] opcode = \h29 -> i_sra(v, Register.C)
      [] opcode = \h2A -> i_sra(v, Register.D)
      [] opcode = \h2B -> i_sra(v, Register.E)
      [] opcode = \h2C -> i_sra(v, Register.H)
      [] opcode = \h2D -> i_sra(v, Register.L)
      [] opcode = \h2E -> i_srahlm(v)
      [] opcode = \h2F -> i_sra(v, Register.A)
      [] opcode = \h30 -> i_swap(v, Register.B)
      [] opcode = \h31 -> i_swap(v, Register.C)
      [] opcode = \h32 -> i_swap(v, Register.D)
      [] opcode = \h33 -> i_swap(v, Register.E)
      [] opcode = \h34 -> i_swap(v, Register.H)
      [] opcode = \h35 -> i_swap(v, Register.L)
      [] opcode = \h36 -> i_swaphlm(v)
      [] opcode = \h37 -> i_swap(v, Register.A)
      [] opcode = \h38 -> i_srl(v, Register.B)
      [] opcode = \h39 -> i_srl(v, Register.C)
      [] opcode = \h3A -> i_srl(v, Register.D)
      [] opcode = \h3B -> i_srl(v, Register.E)
      [] opcode = \h3C -> i_srl(v, Register.H)
      [] opcode = \h3D -> i_srl(v, Register.L)
      [] opcode = \h3E -> i_srlhlm(v)
      [] opcode = \h3F -> i_srl(v, Register.A)
      [] opcode = \h40 -> i_bitr(v, 0, Register.B)
      [] opcode = \h41 -> i_bitr(v, 0, Register.C)
      [] opcode = \h42 -> i_bitr(v, 0, Register.D)
      [] opcode = \h43 -> i_bitr(v, 0, Register.E)
      [] opcode = \h44 -> i_bitr(v, 0, Register.H)
      [] opcode = \h45 -> i_bitr(v, 0, Register.L)
      [] opcode = \h46 -> i_bithlm(v, 0)
      [] opcode = \h47 -> i_bitr(v, 0, Register.A)
      [] opcode = \h48 -> i_bitr(v, 1, Register.B)
      [] opcode = \h49 -> i_bitr(v, 1, Register.C)
      [] opcode = \h4A -> i_bitr(v, 1, Register.D)
      [] opcode = \h4B -> i_bitr(v, 1, Register.E)
      [] opcode = \h4C -> i_bitr(v, 1, Register.H)
      [] opcode = \h4D -> i_bitr(v, 1, Register.L)
      [] opcode = \h4E -> i_bithlm(v, 1)
      [] opcode = \h4F -> i_bitr(v, 1, Register.A)
      [] opcode = \h50 -> i_bitr(v, 2, Register.B)
      [] opcode = \h51 -> i_bitr(v, 2, Register.C)
      [] opcode = \h52 -> i_bitr(v, 2, Register.D)
      [] opcode = \h53 -> i_bitr(v, 2, Register.E)
      [] opcode = \h54 -> i_bitr(v, 2, Register.H)
      [] opcode = \h55 -> i_bitr(v, 2, Register.L)
      [] opcode = \h56 -> i_bithlm(v, 2)
      [] opcode = \h57 -> i_bitr(v, 2, Register.A)
      [] opcode = \h58 -> i_bitr(v, 3, Register.B)
      [] opcode = \h59 -> i_bitr(v, 3, Register.C)
      [] opcode = \h5A -> i_bitr(v, 3, Register.D)
      [] opcode = \h5B -> i_bitr(v, 3, Register.E)
      [] opcode = \h5C -> i_bitr(v, 3, Register.H)
      [] opcode = \h5D -> i_bitr(v, 3, Register.L)
      [] opcode = \h5E -> i_bithlm(v, 3)
      [] opcode = \h5F -> i_bitr(v, 3, Register.A)
      [] opcode = \h60 -> i_bitr(v, 4, Register.B)
      [] opcode = \h61 -> i_bitr(v, 4, Register.C)
      [] opcode = \h62 -> i_bitr(v, 4, Register.D)
      [] opcode = \h63 -> i_bitr(v, 4, Register.E)
      [] opcode = \h64 -> i_bitr(v, 4, Register.H)
      [] opcode = \h65 -> i_bitr(v, 4, Register.L)
      [] opcode = \h66 -> i_bithlm(v, 4)
      [] opcode = \h67 -> i_bitr(v, 4, Register.A)
      [] opcode = \h68 -> i_bitr(v, 5, Register.B)
      [] opcode = \h69 -> i_bitr(v, 5, Register.C)
      [] opcode = \h6A -> i_bitr(v, 5, Register.D)
      [] opcode = \h6B -> i_bitr(v, 5, Register.E)
      [] opcode = \h6C -> i_bitr(v, 5, Register.H)
      [] opcode = \h6D -> i_bitr(v, 5, Register.L)
      [] opcode = \h6E -> i_bithlm(v, 5)
      [] opcode = \h6F -> i_bitr(v, 5, Register.A)
      [] opcode = \h70 -> i_bitr(v, 6, Register.B)
      [] opcode = \h71 -> i_bitr(v, 6, Register.C)
      [] opcode = \h72 -> i_bitr(v, 6, Register.D)
      [] opcode = \h73 -> i_bitr(v, 6, Register.E)
      [] opcode = \h74 -> i_bitr(v, 6, Register.H)
      [] opcode = \h75 -> i_bitr(v, 6, Register.L)
      [] opcode = \h76 -> i_bithlm(v, 6)
      [] opcode = \h77 -> i_bitr(v, 6, Register.A)
      [] opcode = \h78 -> i_bitr(v, 7, Register.B)
      [] opcode = \h79 -> i_bitr(v, 7, Register.C)
      [] opcode = \h7A -> i_bitr(v, 7, Register.D)
      [] opcode = \h7B -> i_bitr(v, 7, Register.E)
      [] opcode = \h7C -> i_bitr(v, 7, Register.H)
      [] opcode = \h7D -> i_bitr(v, 7, Register.L)
      [] opcode = \h7E -> i_bithlm(v, 7)
      [] opcode = \h7F -> i_bitr(v, 7, Register.A)
      [] opcode = \h80 -> i_res(v, 0, Register.B)
      [] opcode = \h81 -> i_res(v, 0, Register.C)
      [] opcode = \h82 -> i_res(v, 0, Register.D)
      [] opcode = \h83 -> i_res(v, 0, Register.E)
      [] opcode = \h84 -> i_res(v, 0, Register.H)
      [] opcode = \h85 -> i_res(v, 0, Register.L)
      [] opcode = \h86 -> i_reshlm(v, 0)
      [] opcode = \h87 -> i_res(v, 0, Register.A)
      [] opcode = \h88 -> i_res(v, 1, Register.B)
      [] opcode = \h89 -> i_res(v, 1, Register.C)
      [] opcode = \h8A -> i_res(v, 1, Register.D)
      [] opcode = \h8B -> i_res(v, 1, Register.E)
      [] opcode = \h8C -> i_res(v, 1, Register.H)
      [] opcode = \h8D -> i_res(v, 1, Register.L)
      [] opcode = \h8E -> i_reshlm(v, 1)
      [] opcode = \h8F -> i_res(v, 1, Register.A)
      [] opcode = \h90 -> i_res(v, 2, Register.B)
      [] opcode = \h91 -> i_res(v, 2, Register.C)
      [] opcode = \h92 -> i_res(v, 2, Register.D)
      [] opcode = \h93 -> i_res(v, 2, Register.E)
      [] opcode = \h94 -> i_res(v, 2, Register.H)
      [] opcode = \h95 -> i_res(v, 2, Register.L)
      [] opcode = \h96 -> i_reshlm(v, 2)
      [] opcode = \h97 -> i_res(v, 2, Register.A)
      [] opcode = \h98 -> i_res(v, 3, Register.B)
      [] opcode = \h99 -> i_res(v, 3, Register.C)
      [] opcode = \h9A -> i_res(v, 3, Register.D)
      [] opcode = \h9B -> i_res(v, 3, Register.E)
      [] opcode = \h9C -> i_res(v, 3, Register.H)
      [] opcode = \h9D -> i_res(v, 3, Register.L)
      [] opcode = \h9E -> i_reshlm(v, 3)
      [] opcode = \h9F -> i_res(v, 3, Register.A)
      [] opcode = \hA0 -> i_res(v, 4, Register.B)
      [] opcode = \hA1 -> i_res(v, 4, Register.C)
      [] opcode = \hA2 -> i_res(v, 4, Register.D)
      [] opcode = \hA3 -> i_res(v, 4, Register.E)
      [] opcode = \hA4 -> i_res(v, 4, Register.H)
      [] opcode = \hA5 -> i_res(v, 4, Register.L)
      [] opcode = \hA6 -> i_reshlm(v, 4)
      [] opcode = \hA7 -> i_res(v, 4, Register.A)
      [] opcode = \hA8 -> i_res(v, 5, Register.B)
      [] opcode = \hA9 -> i_res(v, 5, Register.C)
      [] opcode = \hAA -> i_res(v, 5, Register.D)
      [] opcode = \hAB -> i_res(v, 5, Register.E)
      [] opcode = \hAC -> i_res(v, 5, Register.H)
      [] opcode = \hAD -> i_res(v, 5, Register.L)
      [] opcode = \hAE -> i_reshlm(v, 5)
      [] opcode = \hAF -> i_res(v, 5, Register.A)
      [] opcode = \hB0 -> i_res(v, 6, Register.B)
      [] opcode = \hB1 -> i_res(v, 6, Register.C)
      [] opcode = \hB2 -> i_res(v, 6, Register.D)
      [] opcode = \hB3 -> i_res(v, 6, Register.E)
      [] opcode = \hB4 -> i_res(v, 6, Register.H)
      [] opcode = \hB5 -> i_res(v, 6, Register.L)
      [] opcode = \hB6 -> i_reshlm(v, 6)
      [] opcode = \hB7 -> i_res(v, 6, Register.A)
      [] opcode = \hB8 -> i_res(v, 7, Register.B)
      [] opcode = \hB9 -> i_res(v, 7, Register.C)
      [] opcode = \hBA -> i_res(v, 7, Register.D)
      [] opcode = \hBB -> i_res(v, 7, Register.E)
      [] opcode = \hBC -> i_res(v, 7, Register.H)
      [] opcode = \hBD -> i_res(v, 7, Register.L)
      [] opcode = \hBE -> i_reshlm(v, 7)
      [] opcode = \hBF -> i_res(v, 7, Register.A)
      [] opcode = \hC0 -> i_set(v, 0, Register.B)
      [] opcode = \hC1 -> i_set(v, 0, Register.C)
      [] opcode = \hC2 -> i_set(v, 0, Register.D)
      [] opcode = \hC3 -> i_set(v, 0, Register.E)
      [] opcode = \hC4 -> i_set(v, 0, Register.H)
      [] opcode = \hC5 -> i_set(v, 0, Register.L)
      [] opcode = \hC6 -> i_sethlm(v, 0)
      [] opcode = \hC7 -> i_set(v, 0, Register.A)
      [] opcode = \hC8 -> i_set(v, 1, Register.B)
      [] opcode = \hC9 -> i_set(v, 1, Register.C)
      [] opcode = \hCA -> i_set(v, 1, Register.D)
      [] opcode = \hCB -> i_set(v, 1, Register.E)
      [] opcode = \hCC -> i_set(v, 1, Register.H)
      [] opcode = \hCD -> i_set(v, 1, Register.L)
      [] opcode = \hCE -> i_sethlm(v, 1)
      [] opcode = \hCF -> i_set(v, 1, Register.A)
      [] opcode = \hD0 -> i_set(v, 2, Register.B)
      [] opcode = \hD1 -> i_set(v, 2, Register.C)
      [] opcode = \hD2 -> i_set(v, 2, Register.D)
      [] opcode = \hD3 -> i_set(v, 2, Register.E)
      [] opcode = \hD4 -> i_set(v, 2, Register.H)
      [] opcode = \hD5 -> i_set(v, 2, Register.L)
      [] opcode = \hD6 -> i_sethlm(v, 2)
      [] opcode = \hD7 -> i_set(v, 2, Register.A)
      [] opcode = \hD8 -> i_set(v, 3, Register.B)
      [] opcode = \hD9 -> i_set(v, 3, Register.C)
      [] opcode = \hDA -> i_set(v, 3, Register.D)
      [] opcode = \hDB -> i_set(v, 3, Register.E)
      [] opcode = \hDC -> i_set(v, 3, Register.H)
      [] opcode = \hDD -> i_set(v, 3, Register.L)
      [] opcode = \hDE -> i_sethlm(v, 3)
      [] opcode = \hDF -> i_set(v, 3, Register.A)
      [] opcode = \hE0 -> i_set(v, 4, Register.B)
      [] opcode = \hE1 -> i_set(v, 4, Register.C)
      [] opcode = \hE2 -> i_set(v, 4, Register.D)
      [] opcode = \hE3 -> i_set(v, 4, Register.E)
      [] opcode = \hE4 -> i_set(v, 4, Register.H)
      [] opcode = \hE5 -> i_set(v, 4, Register.L)
      [] opcode = \hE6 -> i_sethlm(v, 4)
      [] opcode = \hE7 -> i_set(v, 4, Register.A)
      [] opcode = \hE8 -> i_set(v, 5, Register.B)
      [] opcode = \hE9 -> i_set(v, 5, Register.C)
      [] opcode = \hEA -> i_set(v, 5, Register.D)
      [] opcode = \hEB -> i_set(v, 5, Register.E)
      [] opcode = \hEC -> i_set(v, 5, Register.H)
      [] opcode = \hED -> i_set(v, 5, Register.L)
      [] opcode = \hEE -> i_sethlm(v, 5)
      [] opcode = \hEF -> i_set(v, 5, Register.A)
      [] opcode = \hF0 -> i_set(v, 6, Register.B)
      [] opcode = \hF1 -> i_set(v, 6, Register.C)
      [] opcode = \hF2 -> i_set(v, 6, Register.D)
      [] opcode = \hF3 -> i_set(v, 6, Register.E)
      [] opcode = \hF4 -> i_set(v, 6, Register.H)
      [] opcode = \hF5 -> i_set(v, 6, Register.L)
      [] opcode = \hF6 -> i_sethlm(v, 6)
      [] opcode = \hF7 -> i_set(v, 6, Register.A)
      [] opcode = \hF8 -> i_set(v, 7, Register.B)
      [] opcode = \hF9 -> i_set(v, 7, Register.C)
      [] opcode = \hFA -> i_set(v, 7, Register.D)
      [] opcode = \hFB -> i_set(v, 7, Register.E)
      [] opcode = \hFC -> i_set(v, 7, Register.H)
      [] opcode = \hFD -> i_set(v, 7, Register.L)
      [] opcode = \hFE -> i_sethlm(v, 7)
      [] opcode = \hFF -> i_set(v, 7, Register.A)

-----------------------------------------------------------------------------
(* The interrupt controller and the execution step                         *)

\* A service check that looked at the pending bits alone
handle_interrupts_unmasked(v) ==
    LET service(src, vector) ==
            i_rst([v EXCEPT !.mmu.ifr[src] = FALSE,
                            !.cpu.interrupt = "IDisabled"], vector) IN
        IF v.mmu.ifr.vblank THEN service("vblank", \h40)
        ELSE IF v.mmu.ifr.lcd_stat THEN service("lcd_stat", \h48)
        ELSE IF v.mmu.ifr.timer THEN service("timer", \h50)
        ELSE IF v.mmu.ifr.serial THEN service("serial", \h58)
        ELSE IF v.mmu.ifr.joypad THEN service("joypad", \h60)
        ELSE R(v, 0, 0)

handle_interrupts(v) ==
    LET service(src, vector) ==
            i_rst([v EXCEPT !.mmu.ifr[src] = FALSE,
                            !.cpu.interrupt = "IDisabled"], vector) IN
        IF v.mmu.ier.vblank /\ v.mmu.ifr.vblank THEN service("vblank", \h40)
        ELSE IF v.mmu.ier.lcd_stat /\ v.mmu.ifr.lcd_stat THEN service("lcd_stat", \h48)
        ELSE IF v.mmu.ier.timer /\ v.mmu.ifr.timer THEN service("timer", \h50)
        ELSE IF v.mmu.ier.serial /\ v.mmu.ifr.serial THEN service("serial", \h58)
        ELSE IF v.mmu.ier.joypad /\ v.mmu.ifr.joypad THEN service("joypad", \h60)
        ELSE R(v, 0, 0)

\* gpu::update_gpu_mode(vm, cycles): the video collaborator is told how many
\* cycles went by; notified is the list of the values it has been given.
update_gpu_mode(notified, cycles) == Append(notified, cycles)

\* A boot ROM overlay that followed PC instead of latching
disable_bios_follows_pc(v) == [v EXCEPT !.mmu.bios_enabled = pc(v) < \h100]

\* A latch cleared only by a step that begins above 0x100
disable_bios_above(v) ==
    IF pc(v) > \h100 THEN [v EXCEPT !.mmu.bios_enabled = FALSE] ELSE v

\* execute_one_instruction, first statement: the boot ROM is switched off
\* when a step begins at or above 0x100.
disable_bios(v) ==
    IF pc(v) >= \h100 THEN [v EXCEPT !.mmu.bios_enabled = FALSE] ELSE v

\* A step that ends without the deferred transition
next_interrupt_state_kept(interrupt) == interrupt

\* execute_one_instruction, the match that ends the step
\* An end-of-step match that settles the enable and forgets the disable
next_interrupt_state_enable_only(interrupt) ==
    CASE interrupt = "IEnableNextInst" -> "IEnabled"
      [] OTHER -> interrupt

next_interrupt_state(interrupt) ==
    CASE interrupt = "IEnableNextInst" -> "IEnabled"
      [] interrupt = "IDisableNextInst" -> "IDisabled"
      [] OTHER -> interrupt

\* A step whose service check runs before the timer has been advanced by
\* the instruction's cycles
execute_one_instruction_check_first(v) ==
    Let(disable_bios(v), LAMBDA v0 :
    Let(read_program_byte(v0), LAMBDA f1 :
    Let(read_program_byte(f1.vm), LAMBDA f2 :
    Let(    IF f1.byte = \hCB THEN dispatch_cb(f2.byte, f2.vm)
                ELSE dispatch(f1.byte, f1.vm), LAMBDA inst :
    Let(inst.clock, LAMBDA clock :
    Let(update_cpu_clock(clock, inst.vm), LAMBDA v1 :
    Let(v1.cpu.interrupt \in {"IDisableNextInst", "IEnabled"}, LAMBDA checked :
    Let(IF checked THEN handle_interrupts(v1) ELSE R(v1, 0, 0), LAMBDA s :
    Let(update_timers(s.clock,
            update_timers(clock, update_cpu_clock(s.clock, s.vm))), LAMBDA v2 :
    Let([v2 EXCEPT !.cpu.interrupt = next_interrupt_state(@)], LAMBDA v3 :
        [vm      |-> v3,
         opcode  |-> f1.byte,
         cb      |-> IF f1.byte = \hCB THEN f2.byte ELSE -1,
         ivm     |-> inst.vm,
         iclock  |-> clock,
         mid     |-> v1,
         checked |-> checked,
         svc     |-> s.vm,
         sclock  |-> s.clock,
         gpu     |-> update_gpu_mode(<<>>, clock.t)]))))))))))

\* One call of execute_one_instruction.  Besides the machine it leaves (vm),
\* the result keeps what the call went through: the opcode fetched, the
\* machine right after the instruction (ivm), after the first clock and timer
\* update (mid), after the service check (svc), both costs, whether the
\* service check ran, and what the video collaborator was told.
execute_one_instruction(v) ==
    Let(disable_bios(v), LAMBDA v0 :
    Let(read_program_byte(v0), LAMBDA f1 :
    Let(read_program_byte(f1.vm), LAMBDA f2 :
    Let(    IF f1.byte = \hCB THEN dispatch_cb(f2.byte, f2.vm)
                ELSE dispatch(f1.byte, f1.vm), LAMBDA inst :
    Let(inst.clock, LAMBDA clock :
    Let(update_timers(clock, update_cpu_clock(clock, inst.vm)), LAMBDA v1 :
    Let(v1.cpu.interrupt \in {"IDisableNextInst", "IEnabled"}, LAMBDA checked :
    Let(IF checked THEN handle_interrupts(v1) ELSE R(v1, 0, 0), LAMBDA s :
    Let(  IF checked
              THEN update_timers(s.clock, update_cpu_clock(s.clock, s.vm))
              ELSE v1, LAMBDA v2 :
    Let([v2 EXCEPT !.cpu.interrupt = next_interrupt_state(@)], LAMBDA v3 :
        [vm      |-> v3,
         opcode  |-> f1.byte,
         cb      |-> IF f1.byte = \hCB THEN f2.byte ELSE -1,
         ivm     |-> inst.vm,
         iclock  |-> clock,
         mid     |-> v1,
         checked |-> checked,
         svc     |-> s.vm,
         sclock  |-> s.clock,
         gpu     |-> update_gpu_mode(<<>>, clock.t)]))))))))))

-----------------------------------------------------------------------------
(* The machine and its host.  The host owns the pub fields of Vm: it loads *)
(* cartridge bytes into the ROM banks, writes memory through wb, sets PC,  *)
(* and calls execute_one_instruction.                                      *)

MaxSteps == 3

\* step when the last thing that happened was not a completed instruction
NoStep(kind) ==
    [kind |-> kind, pre |-> Vm_default, opcode |-> 0, cb |-> -1,
     ivm |-> Vm_default, iclock |-> Clock(0, 0), mid |-> Vm_default,
     checked |-> FALSE, svc |-> Vm_default, sclock |-> Clock(0, 0),
     gpu |-> <<>>]

\* The source whose vector the service check jumped to ("none": no service)
serviced(x) ==
    IF x.sclock.t = 0 THEN "none"
    ELSE CASE pc(x.svc) = \h40 -> "vblank"
           [] pc(x.svc) = \h48 -> "lcd_stat"
           [] pc(x.svc) = \h50 -> "timer"
           [] pc(x.svc) = \h58 -> "serial"
           [] pc(x.svc) = \h60 -> "joypad"

\* Some source is both enabled and pending
armed(v) ==
    \E src \in DOMAIN v.mmu.ier : v.mmu.ier[src] /\ v.mmu.ifr[src]

\* What a call of execute_one_instruction that went through x leaves behind.
\* An arithmetic overflow in a build with overflow checks aborts the process:
\* nothing runs afterwards.
Return(x) ==
    IF x.vm.panicked
    THEN /\ vm' = panic(vm)
         /\ step' = NoStep("abort")
         /\ trace' = trace
    ELSE /\ vm' = x.vm
         /\ step' = [kind |-> "exec", pre |-> vm, opcode |-> x.opcode,
                     cb |-> x.cb, ivm |-> x.ivm, iclock |-> x.iclock,
                     mid |-> x.mid, checked |-> x.checked, svc |-> x.svc,
                     sclock |-> x.sclock, gpu |-> x.gpu]
         /\ trace' = Append(trace, [pc |-> pc(vm), opcode |-> x.opcode,
                                     ime |-> vm.cpu.interrupt,
                                     armed |-> armed(x.mid),
                                     irq |-> serviced(x)])

\* The host calls execute_one_instruction (at most n times).
Step(n) ==
    /\ ~vm.panicked
    /\ icount < n
    /\ Return(execute_one_instruction(vm))
    /\ icount' = icount + 1
    /\ UNCHANGED overflow_checks

\* A byte of a cartridge image goes straight into the ROM bank; any other
\* address is written through the address decoder.
poke(addr, value, v) ==
    IF addr <= \h3FFF THEN [v EXCEPT !.mmu.rom = Store(@, addr, value)]
    ELSE IF addr <= \h7FFF THEN [v EXCEPT !.mmu.srom = Store(@, addr - \h4000, value)]
    ELSE wb(addr, value, v)

RECURSIVE load(_, _, _)
load(code, addr, v) ==
    IF code = <<>> THEN v
    ELSE load(Tail(code), wrapping_add16(addr, 1), poke(addr, Head(code), v))

\* The host places program bytes where PC points, in memory the machine
\* fetches from (not under the boot ROM overlay).
HostLoad(code, n) ==
    /\ ~vm.panicked
    /\ icount < n
    /\ step.kind # "load"
    /\ ~(vm.mmu.bios_enabled /\ pc(vm) <= \h00FF)
    /\ vm' = load(code, pc(vm), vm)
    /\ vm' # vm
    /\ step' = NoStep("load")
    /\ UNCHANGED <<overflow_checks, icount, trace>>

\* The host (a peripheral, a test fixture) writes a byte through wb.
HostWrite(addr, value, n) ==
    /\ ~vm.panicked
    /\ icount < n
    /\ step.kind # "load"
    /\ vm' = wb(addr, value, vm)
    /\ vm' # vm
    /\ step' = NoStep("host")
    /\ UNCHANGED <<overflow_checks, icount, trace>>

\* The host sets the program counter.
HostSetPC(addr, n) ==
    /\ ~vm.panicked
    /\ icount < n
    /\ step.kind # "load"
    /\ pc(vm) # addr
    /\ vm' = set_pc(vm, addr)
    /\ step' = NoStep("host")
    /\ UNCHANGED <<overflow_checks, icount, trace>>

InitWith(v) ==
    /\ vm = v
    /\ overflow_checks \in BOOLEAN
    /\ icount = 0
    /\ step = NoStep("reset")
    /\ trace = <<>>

\* Machine reset: Default::default for every part of Vm
Init == InitWith(Vm_default)

-----------------------------------------------------------------------------
(* The general machine: the interrupt state machine and the boot latch     *)

\* EI, DI, RETI; ROM left unloaded is NOP
Programs == {<<\hFB>>, <<\hF3>>, <<\hD9>>}

\* Host writes: all sources enabled; vblank and timer pending
HostWrites == {<<\hFFFF, \h1F>>, <<\hFF0F, \h05>>}

EntryPoints == {\h0100, \h00FF}

Next ==
    \/ Step(MaxSteps)
    \/ \E code \in Programs : HostLoad(code, MaxSteps)
    \/ \E w \in HostWrites : HostWrite(w[1], w[2], MaxSteps)
    \/ \E a \in EntryPoints : HostSetPC(a, MaxSteps)

Spec == Init /\ [][Next]_vars

TypeOK ==
    /\ vm.cpu.registers.pc \in 0..65535
    /\ vm.cpu.registers.sp \in 0..65535
    /\ \A r \in 0..7 : vm.cpu.registers.rs[r] \in 0..255
    /\ vm.cpu.interrupt \in InterruptState

-----------------------------------------------------------------------------
(* Properties of the execution step                                        *)

\* The last thing that happened is a completed call of
\* execute_one_instruction, described by step.
Executed == step.kind = "exec"

\* The step executed the primary opcode op
Ran(op) == Executed /\ step.opcode = op

\* C2: at the end of every step the interrupt state is the end-of-step rule
\* applied to the state left by the instruction and the service check
\* (DisableNext -> Disabled, EnableNext -> Enabled, Enabled and Disabled
\* stay); before that rule the state is changed only by DI (DisableNext),
\* EI (EnableNext), RETI (Enabled) and by a service (Disabled).
C2_EndOfStepRule ==
    Executed =>
        /\ vm.cpu.interrupt =
              (CASE step.svc.cpu.interrupt = "IDisableNextInst" -> "IDisabled"
                 [] step.svc.cpu.interrupt = "IEnableNextInst" -> "IEnabled"
                 [] step.svc.cpu.interrupt = "IEnabled" -> "IEnabled"
                 [] step.svc.cpu.interrupt = "IDisabled" -> "IDisabled")
        /\ step.ivm.cpu.interrupt =
              (CASE step.opcode = \hF3 -> "IDisableNextInst"
                 [] step.opcode = \hFB -> "IEnableNextInst"
                 [] step.opcode = \hD9 -> "IEnabled"
                 [] OTHER -> step.pre.cpu.interrupt)
        /\ step.mid.cpu.interrupt = step.ivm.cpu.interrupt
        /\ step.svc.cpu.interrupt =
              (IF serviced(step) # "none" THEN "IDisabled"
               ELSE step.mid.cpu.interrupt)

\* C2 happens: DI executed while interrupts were enabled, and the step ended
\* with interrupts disabled.
C2_Witness ==
    /\ Ran(\hF3)
    /\ step.pre.cpu.interrupt = "IEnabled"
    /\ step.svc.cpu.interrupt = "IDisableNextInst"
    /\ vm.cpu.interrupt = "IDisabled"

\* The step before the last one, and the last one, as recorded in trace
Prev == trace[Len(trace) - 1]
Last == trace[Len(trace)]

\* C3: a step that starts Disabled and executes EI while a source is enabled
\* and pending services nothing (no pending bit cleared, PC just after the
\* EI) and ends Enabled; the step after it, whatever its instruction, with
\* the source still enabled and pending, services an interrupt.
C3_EiOneInstructionLater ==
    /\ (Ran(\hFB) /\ step.pre.cpu.interrupt = "IDisabled" /\ armed(step.mid)) =>
          /\ serviced(step) = "none"
          /\ \A src \in DOMAIN vm.mmu.ifr : step.pre.mmu.ifr[src] => vm.mmu.ifr[src]
          /\ pc(vm) = wrapping_add16(pc(step.pre), 1)
          /\ vm.cpu.interrupt = "IEnabled"
    /\ (/\ Executed
        /\ Len(trace) >= 2
        /\ Prev.opcode = \hFB /\ Prev.ime = "IDisabled" /\ Prev.armed
        /\ step.pre.cpu.interrupt = "IEnabled"
        /\ armed(step.pre)
        /\ armed(step.mid)) =>
          Last.irq # "none"

\* C4: RETI leaves the interrupt state Enabled at once, the service check of
\* the same step runs after the return; a source enabled and pending then is
\* serviced in that step (from the returned-to PC), otherwise the step ends
\* Enabled.
C4_RetiEnablesAtOnce ==
    Ran(\hD9) =>
        /\ step.ivm.cpu.interrupt = "IEnabled"
        /\ pc(step.ivm) = rw(sp(step.pre), disable_bios(step.pre))
        /\ step.checked
        /\ armed(step.mid) =>
              /\ serviced(step) # "none"
              /\ sp(step.svc) = wrapping_sub16(sp(step.ivm), 2)
              /\ vm.cpu.interrupt = "IDisabled"
        /\ ~armed(step.mid) =>
              /\ serviced(step) = "none"
              /\ pc(vm) = pc(step.ivm)
              /\ vm.cpu.interrupt = "IEnabled"

\* C4 happens: a RETI whose own step serviced a pending interrupt.
C4_Witness ==
    /\ Ran(\hD9)
    /\ step.pre.cpu.interrupt = "IDisabled"
    /\ serviced(step) = "vblank"
    /\ pc(vm) = \h40

\* C5: the boot latch is set after reset, and once clear it stays clear
\* whatever happens next (steps at any PC, host writes, PC set back low).
C5_BootLatchOneWay ==
    /\ vm.mmu.bios_enabled
    /\ [][~vm.mmu.bios_enabled => ~vm'.mmu.bios_enabled]_vars

\* C5 happens: a step ran below 0x100 with the latch already clear and left
\* it clear.
C5_Witness ==
    /\ Executed
    /\ pc(step.pre) < \h100
    /\ ~step.pre.mmu.bios_enabled
    /\ ~vm.mmu.bios_enabled

LowAddresses == 0..255

\* C6 as stated: while the latch is set low reads give the boot ROM, and
\* once the step that takes PC from 0x00FF to 0x0100 has completed the latch
\* is clear and low reads give cartridge ROM bank 0.
C6_ClearedWhenStepCompletes ==
    /\ vm.mmu.bios_enabled =>
          \A a \in LowAddresses : rb(a, vm) = bios[a + 1]
    /\ (Executed /\ pc(step.pre) = \h00FF /\ pc(vm) = \h0100) =>
          /\ ~vm.mmu.bios_enabled
          /\ \A a \in LowAddresses : rb(a, vm) = Load(vm.mmu.rom, a)

\* C6, amended: while the latch is set low reads give the boot ROM; a step
\* leaves the latch set exactly when it began with the latch set and PC
\* below 0x100, so the step that takes PC from 0x00FF to 0x0100 leaves it
\* set and the next step that begins at or above 0x100 clears it; once clear,
\* low reads give cartridge ROM bank 0.
C6_ClearedWhenNextStepBegins ==
    /\ vm.mmu.bios_enabled =>
          \A a \in LowAddresses : rb(a, vm) = bios[a + 1]
    /\ ~vm.mmu.bios_enabled =>
          \A a \in LowAddresses : rb(a, vm) = Load(vm.mmu.rom, a)
    /\ Executed =>
          (vm.mmu.bios_enabled <=>
              (step.pre.mmu.bios_enabled /\ pc(step.pre) < \h100))

\* C6 happens: the step from 0x00FF has completed, PC is 0x0100, and low
\* reads still give the boot ROM, not the (different) cartridge byte.
C6_Witness ==
    /\ Executed
    /\ pc(step.pre) = \h00FF
    /\ pc(vm) = \h0100
    /\ vm.mmu.bios_enabled
    /\ rb(\h00FF, vm) = bios[256]
    /\ Load(vm.mmu.rom, \h00FF) # bios[256]

\* C8: the video collaborator is notified once per step, with the number of
\* cycles the machine clock advanced in that step (instruction plus
\* interrupt service).
C8_VideoToldTotalCycles ==
    Executed =>
        /\ Len(step.gpu) = 1
        /\ step.gpu[1] = step.iclock.t + step.sclock.t
        /\ vm.cpu.clock.t = wrapping_add64(step.pre.cpu.clock.t, step.gpu[1])

-----------------------------------------------------------------------------
(* The interrupt controller: every priority case of the service check      *)

\* EI, RETI, LD SP,0xFF11 and LD SP,0x0001 (a stack whose next push lands on
\* the interrupt registers); ROM left unloaded reads as NOP
IrqPrograms ==
    {<<\hFB>>, <<\hD9>>, <<\h31, \h11, \hFF>>, <<\h31, \h01, \h00>>}

\* Enable masks: all sources; lcd_stat + serial; vblank + timer + joypad.
\* Pending masks: from all five down to joypad alone; vblank + timer.
IrqWrites ==
    {<<\hFFFF, \h1F>>, <<\hFFFF, \h0A>>, <<\hFFFF, \h15>>,
     <<\hFF0F, \h1F>>, <<\hFF0F, \h1E>>, <<\hFF0F, \h1C>>, <<\hFF0F, \h18>>,
     <<\hFF0F, \h10>>, <<\hFF0F, \h05>>}

\* The host sets its fixture up (interrupt masks, entry point) before this
\* many instructions have run
FixtureSteps == 1

\* Where the boot ROM hands over to the cartridge
CartridgeEntry == \h0100

NextIrq ==
    \/ Step(MaxSteps)
    \/ \E code \in IrqPrograms : HostLoad(code, MaxSteps)
    \/ \E w \in IrqWrites : HostWrite(w[1], w[2], FixtureSteps)
    \/ HostSetPC(CartridgeEntry, FixtureSteps)

SpecIrq == Init /\ [][NextIrq]_vars

Sources == <<"vblank", "lcd_stat", "timer", "serial", "joypad">>

vector(src) ==
    CASE src = "vblank" -> \h40 [] src = "lcd_stat" -> \h48 [] src = "timer" -> \h50
      [] src = "serial" -> \h58 [] src = "joypad" -> \h60

\* Position in Sources of the first source enabled and pending in v (0: none)
first_armed(v) ==
    IF armed(v)
    THEN CHOOSE i \in 1..5 :
            /\ v.mmu.ier[Sources[i]] /\ v.mmu.ifr[Sources[i]]
            /\ \A j \in 1..(i - 1) : ~(v.mmu.ier[Sources[j]] /\ v.mmu.ifr[Sources[j]])
    ELSE 0

\* The two bytes of the return address pushed by a service from v stay clear
\* of the interrupt registers 0xFF0F and 0xFFFF
push_clear_of_registers(v) ==
    LET lo == wrapping_sub16(sp(v), 2)
        hi == wrapping_sub16(sp(v), 1)
    IN  {lo, hi} \cap {\hFF0F, \hFFFF} = {}

\* What one service check did to a machine `before`, leaving `after`:
\* nothing when no source is armed, else the first armed source is taken
\* (PC at its vector); registers tells whether the pending and enable bits
\* are also claimed (only that source's pending bit cleared, no enable bit
\* changed).
one_service(before, after, registers) ==
    LET i == first_armed(before)
    IN  IF i = 0
        THEN after = before
        ELSE /\ pc(after) = vector(Sources[i])
             /\ registers =>
                   /\ after.mmu.ifr = [before.mmu.ifr EXCEPT ![Sources[i]] = FALSE]
                   /\ after.mmu.ier = before.mmu.ier

\* C1 as stated: one service check takes the first source, in the order
\* vblank > lcd_stat > timer > serial > joypad, that is enabled and pending,
\* clears that pending bit and no other, changes no enable bit and sets PC
\* to the source's vector; so vblank goes before timer.
C1_OneSourcePerCheck ==
    (Executed /\ step.checked) => one_service(step.mid, step.svc, TRUE)

\* C1, amended: the same, the claim about the pending and enable bits being
\* made when the pushed return address stays clear of 0xFF0F and 0xFFFF.
C1_OneSourcePerCheckStackClear ==
    (Executed /\ step.checked) =>
        one_service(step.mid, step.svc, push_clear_of_registers(step.mid))

\* C1 happens: vblank and timer were enabled and pending; one check took
\* vblank and left timer pending, and the check of the following step (the
\* state being Enabled again) took timer and jumped to 0x50.
C1_Witness ==
    /\ Executed
    /\ Len(trace) >= 2
    /\ Prev.irq = "vblank"
    /\ step.pre.mmu.ifr.timer /\ ~step.pre.mmu.ifr.vblank
    /\ step.mid.cpu.interrupt = "IEnabled"
    /\ push_clear_of_registers(step.mid)
    /\ Last.irq = "timer"
    /\ ~vm.mmu.ifr.timer
    /\ pc(vm) = \h50

-----------------------------------------------------------------------------
(* The whole instruction set: after a short prefix, any opcode of either   *)
(* table runs.                                                             *)

IsaSteps == 2

\* First instruction: POP AF, EI; ROM left unloaded is NOP
IsaPrefix == {<<\hF1>>, <<\hFB>>}

\* Operand bytes following the opcode: d8 = 0xFF / r8 = -1 / a16 = 0xFFFF
Operands == {<<\hFF, \hFF>>}

\* Every primary opcode but the prefix byte, and every 0xCB-prefixed opcode
IsaPrograms ==
    {<<op>> \o operand : op \in (0..255) \ {\hCB}, operand \in Operands}
        \cup {<<\hCB, op>> : op \in 0..255}

\* The machine as the host's fixture leaves it after reset: PC at the
\* cartridge entry, and a byte with its low nibble set where POP AF reads F
Vm_isa == set_pc(wb(\hFFFE, \hFF, Vm_default), CartridgeEntry)

InitIsa == InitWith(Vm_isa)

\* Enable and pending masks
IsaWrites == {<<\hFFFF, \h1F>>, <<\hFF0F, \h01>>}

\* The host loads the instruction of the last step
HostLoadLast(code, n) ==
    /\ icount = n - 1
    /\ HostLoad(code, n)

NextIsa ==
    \/ Step(IsaSteps)
    \/ \E code \in IsaPrefix : HostLoad(code, FixtureSteps)
    \/ \E code \in IsaPrograms : HostLoadLast(code, IsaSteps)
    \/ \E w \in IsaWrites : HostWrite(w[1], w[2], FixtureSteps)

SpecIsa == InitIsa /\ [][NextIsa]_vars

PairValues == {\hFFFF, \h12AB, \hA50F}

\* C7: in every state the low nibble of F is zero, and writing any 16-bit
\* value v to a pair (h, F) leaves F = low byte of v AND 0xF0 and h = high
\* byte of v; POP AF is such a write of the word on the stack.
C7_FlagsLowNibbleZero ==
    /\ And(reg(vm, Register.F), \h0F) = 0
    /\ \A h \in 0..6 : \A value \in PairValues :
          LET w == set_r16(vm, h, Register.F, value)
          IN  /\ reg(w, Register.F) = And(value % 256, \hF0)
              /\ reg(w, h) = value \div 256
    /\ Ran(\hF1) =>
          LET word == rw(sp(step.pre), disable_bios(step.pre))
          IN  /\ reg(vm, Register.F) = And(word % 256, \hF0)
              /\ reg(vm, Register.A) = word \div 256

\* C7 happens: POP AF took a stack byte with all low bits set into F, and F
\* holds its high nibble only.
C7_Witness ==
    /\ Ran(\hF1)
    /\ rb(sp(step.pre), step.pre) = \hFF
    /\ reg(vm, Register.F) = \hF0
    /\ sp(vm) = wrapping_add16(sp(step.pre), 2)

-----------------------------------------------------------------------------
(* The machine clock, also after a very long run                           *)

\* The machine after 2^63 - 1 rounds of `JR -2` at 0x0100 (each 2 bytes,
\* 12 cycles, 3 DIV ticks): m = 2^64 - 2, t = 2^64 - 12, DIV = 253.
Vm_long_run ==
    [Vm_default EXCEPT
        !.mmu.rom = load(<<\h18, \hFE>>, CartridgeEntry, Vm_default).mmu.rom,
        !.mmu.bios_enabled = FALSE,
        !.cpu.registers.pc = CartridgeEntry,
        !.cpu.clock.m = <<Limb - 2, Limb - 1, Limb - 1, Limb - 1>>,
        !.cpu.clock.t = <<Limb - 12, Limb - 1, Limb - 1, Limb - 1>>,
        !.cpu.timers.div = 253]

InitLong == InitWith(Vm_default) \/ InitWith(Vm_long_run)

\* EI, DI, RETI, LD A,(HL); ROM left unloaded is NOP
LongPrograms == {<<\hFB>>, <<\hF3>>, <<\hD9>>, <<\h7E>>}

\* Timer enabled; timer running at one tick per cycle; TIMA about to overflow
LongWrites == {<<\hFFFF, \h04>>, <<\hFF07, \h05>>, <<\hFF05, \hFF>>}

NextLong ==
    \/ Step(MaxSteps)
    \/ \E code \in LongPrograms : HostLoad(code, MaxSteps)
    \/ \E w \in LongWrites : HostWrite(w[1], w[2], FixtureSteps)
    \/ HostSetPC(CartridgeEntry, FixtureSteps)

SpecLong == InitLong /\ [][NextLong]_vars

\* Cycles counted by the DIV register and its sub-counter, modulo 2^10
div_cycles(v) == (v.cpu.timers.div * 4 + v.cpu.timers.imp_4c) % 1024

\* C9: in a step m and t grow, modulo 2^64, by the instruction's cost plus
\* the service check's cost; the timers are advanced by the instruction's
\* cycles and then by the service's cycles; the service check runs exactly
\* when the state after the instruction is Enabled or DisableNextInstruction.
C9_ClockAndTimers ==
    Executed =>
        /\ vm.cpu.clock.m =
              wrapping_add64(step.pre.cpu.clock.m, step.iclock.m + step.sclock.m)
        /\ vm.cpu.clock.t =
              wrapping_add64(step.pre.cpu.clock.t, step.iclock.t + step.sclock.t)
        /\ step.checked <=>
              step.ivm.cpu.interrupt \in {"IEnabled", "IDisableNextInst"}
        /\ ~step.checked => (step.sclock = Clock(0, 0) /\ step.svc = step.mid)
        /\ step.mid.cpu.timers = update_timers(step.iclock, step.ivm).cpu.timers
        /\ step.mid.mmu.ifr = update_timers(step.iclock, step.ivm).mmu.ifr
        /\ vm.cpu.timers = update_timers(step.sclock, step.svc).cpu.timers
        /\ vm.mmu.ifr = update_timers(step.sclock, step.svc).mmu.ifr
        /\ div_cycles(step.mid) = (div_cycles(step.ivm) + step.iclock.t) % 1024
        /\ div_cycles(vm) = (div_cycles(step.svc) + step.sclock.t) % 1024

\* C9 happens: 4 cycles before the cycle counter wraps, an instruction of 4
\* cycles and an interrupt service of 16 take t through 2^64 to 16.
C9_Witness ==
    /\ Executed
    /\ step.pre.cpu.clock.t = <<Limb - 4, Limb - 1, Limb - 1, Limb - 1>>
    /\ step.iclock.t = 4
    /\ serviced(step) = "timer"
    /\ step.sclock.t = 16
    /\ vm.cpu.clock.t = U64(16)
    /\ vm.cpu.clock.m = U64(1)

-----------------------------------------------------------------------------
(* The end-to-end program                                                  *)

E2ESteps == 4

\* LD A,5; LD B,3; ADD A,B; HALT
E2EProgram == <<\h3E, \h05, \h06, \h03, \h80, \h76>>

NextE2E ==
    \/ Step(E2ESteps)
    \/ HostLoad(E2EProgram, FixtureSteps)
    \/ HostSetPC(CartridgeEntry, FixtureSteps)
    \/ \E w \in IrqWrites : HostWrite(w[1], w[2], E2ESteps)

SpecE2E == Init /\ [][NextE2E]_vars

\* n instructions have run, from 0x0100 on through the program in ROM
Stepped(n) ==
    /\ Executed
    /\ Len(trace) = n
    /\ \A i \in 1..n : trace[i].pc = <<\h0100, \h0102, \h0104, \h0105>>[i]
    /\ \A i \in 1..Len(E2EProgram) :
          Load(vm.mmu.rom, CartridgeEntry + i - 1) = E2EProgram[i]

\* The cycle counter holds n
cycles(n) == vm.cpu.clock.t = U64(n)

\* C10 as stated: after the four instructions of the program, A = 8, Z and
\* C are clear, PC points at the HALT opcode and 24 cycles have gone by.
C10_FourStepsTwentyFourCycles ==
    Stepped(4) =>
        /\ reg(vm, Register.A) = 8
        /\ ~flag(vm, Flag.Z)
        /\ ~flag(vm, Flag.C)
        /\ pc(vm) = \h0105
        /\ cycles(24)

\* C10, amended: after the three instructions before HALT, A = 8, Z and C
\* are clear, PC points at the HALT opcode and 8 + 8 + 4 = 20 cycles have
\* gone by; the fourth step, HALT, moves PC past it and adds no cycle.
C10_ThreeStepsTwentyCycles ==
    /\ Stepped(3) =>
          /\ reg(vm, Register.A) = 8
          /\ ~flag(vm, Flag.Z)
          /\ ~flag(vm, Flag.C)
          /\ pc(vm) = \h0105
          /\ rb(pc(vm), vm) = \h76
          /\ cycles(20)
    /\ Stepped(4) =>
          /\ reg(vm, Register.A) = 8
          /\ ~flag(vm, Flag.Z)
          /\ ~flag(vm, Flag.C)
          /\ pc(vm) = \h0106
          /\ cycles(20)

\* C10 happens: the program has run up to its HALT.
C10_Witness ==
    /\ Stepped(3)
    /\ reg(vm, Register.B) = 3
    /\ reg(vm, Register.A) = 8
    /\ rb(pc(vm), vm) = \h76

-----------------------------------------------------------------------------
(* The timer unit on its own: update_timers applied to timers in any       *)
(* state the pub fields of Timers can be given.                            *)

TimerSteps == 2

\* Cycle counts handed to update_timers: less than a DIV tick, one DIV tick,
\* a taken relative jump, an instruction and its interrupt service
Cycles == {1, 4, 12, 20}

\* The timers the host may have set up: TIMA at rest, one and no tick from
\* overflow; a modulo low, near the top and at the top; every mode, running or not;
\* sub-counters empty and full; DIV at both ends
TimerFixtures ==
    [div : {0, \hFF}, tima : {0, \hFE, \hFF}, tma : {\h05, \hFD, \hFF},
     tac : [timer_mode : 0..3, running : BOOLEAN],
     imp_4c : {0, 3}, imp_nc : {0, 15}]

InitTimers ==
    \E t \in TimerFixtures : \E pending \in BOOLEAN :
        InitWith([Vm_default EXCEPT !.cpu.timers = t, !.mmu.ifr.timer = pending])

\* update_timers is called with a clock of t cycles
Advance(t) ==
    /\ icount < TimerSteps
    /\ vm' = update_timers(Clock(0, t), vm)
    /\ step' = [NoStep("timers") EXCEPT !.pre = vm, !.iclock = Clock(0, t)]
    /\ icount' = icount + 1
    /\ UNCHANGED <<overflow_checks, trace>>

NextTimers == \E t \in Cycles : Advance(t)

SpecTimers == InitTimers /\ [][NextTimers]_vars

\* update_timers has just been applied to step.pre, giving vm
Advanced == step.kind = "timers"

\* The cycles per TIMA tick selected by TAC
tima_period(t) ==
    CASE t.tac.timer_mode = 0 -> 16 [] t.tac.timer_mode = 1 -> 1
      [] t.tac.timer_mode = 2 -> 8  [] t.tac.timer_mode = 3 -> 4

\* The number of TIMA ticks an advance from timers t by n cycles takes
tima_tick_count(t, n) == (t.imp_nc + n) \div tima_period(t)

\* TIMA after n ticks from tima with modulo tma: it counts up to 0xFF, the
\* tick after that reloads tma, and from there every 256 - tma ticks do
tima_after(tima, tma, n) ==
    IF tima + n <= \hFF THEN tima + n
    ELSE tma + ((n - (256 - tima)) % (256 - tma))

\* C11: with the run flag set, a tick taken at TIMA = 0xFF sets TIMA to TMA
\* and the pending timer flag, a tick taken below 0xFF adds one to TIMA and
\* leaves the flag; so an advance of n ticks leaves TIMA where n such ticks
\* take it, the flag set if one of them was taken at 0xFF and else as it
\* was; with the run flag clear TIMA and the flag stay.
C11_TimaTicks ==
    Advanced =>
        LET t == step.pre.cpu.timers
            n == tima_tick_count(t, step.iclock.t)
        IN  IF t.tac.running
            THEN /\ vm.cpu.timers.tima = tima_after(t.tima, t.tma, n)
                 /\ vm.mmu.ifr.timer =
                       (step.pre.mmu.ifr.timer \/ t.tima + n > \hFF)
                 /\ (n = 1 /\ t.tima = \hFF) =>
                       vm.cpu.timers.tima = t.tma /\ vm.mmu.ifr.timer
                 /\ (n = 1 /\ t.tima < \hFF) =>
                       /\ vm.cpu.timers.tima = t.tima + 1
                       /\ vm.mmu.ifr.timer = step.pre.mmu.ifr.timer
            ELSE /\ vm.cpu.timers.tima = t.tima
                 /\ vm.mmu.ifr.timer = step.pre.mmu.ifr.timer

\* C11 happens: TIMA = 0xFF, TMA = 0x05, running in mode 01 with an empty
\* sub-counter and no timer interrupt pending; one cycle later TIMA = 0x05
\* and the timer interrupt is pending.
C11_Witness ==
    /\ Advanced
    /\ step.iclock.t = 1
    /\ step.pre.cpu.timers.tima = \hFF
    /\ step.pre.cpu.timers.tma = \h05
    /\ step.pre.cpu.timers.tac = [timer_mode |-> 1, running |-> TRUE]
    /\ step.pre.cpu.timers.imp_nc = 0
    /\ ~step.pre.mmu.ifr.timer
    /\ vm.cpu.timers.tima = \h05
    /\ vm.mmu.ifr.timer

\* C12: an advance of t cycles from a DIV sub-counter s < 4 adds
\* (s + t) div 4 to DIV modulo 256 and leaves the sub-counter at
\* (s + t) mod 4, running or not; the sub-counter is always below 4.
C12_DivTicks ==
    /\ vm.cpu.timers.imp_4c < 4
    /\ Advanced =>
          LET s == step.pre.cpu.timers.imp_4c
              t == step.iclock.t
          IN  /\ vm.cpu.timers.div =
                    (step.pre.cpu.timers.div + ((s + t) \div 4)) % 256
              /\ vm.cpu.timers.imp_4c = (s + t) % 4

\* C12 happens: with the run flag clear, DIV = 0xFF and 3 cycles in the
\* sub-counter, 20 cycles take DIV round to 0x04 and leave 3 cycles over.
C12_Witness ==
    /\ Advanced
    /\ ~step.pre.cpu.timers.tac.running
    /\ step.pre.cpu.timers.div = \hFF
    /\ step.pre.cpu.timers.imp_4c = 3
    /\ step.iclock.t = 20
    /\ vm.cpu.timers.div = \h04
    /\ vm.cpu.timers.imp_4c = 3

-----------------------------------------------------------------------------
(* Undefined opcodes                                                       *)

\* The primary opcodes dispatch gives to i_invalid
UndefinedOpcodes ==
    {\hD3, \hDB, \hDD, \hE3, \hE4, \hEB, \hEC, \hED, \hF4, \hFC, \hFD}

\* The step that has just completed fetched an undefined opcode
RanUndefined == step.kind = "exec" /\ step.opcode \in UndefinedOpcodes

\* A step was asked to run an undefined opcode: the host loaded it where PC
\* points and then called execute_one_instruction
AskedUndefined ==
    /\ step.kind = "load"
    /\ rb(pc(vm), disable_bios(vm)) \in UndefinedOpcodes
    /\ Step(IsaSteps)

\* What the handler of an undefined opcode does: from the machine as the
\* step found it (boot latch settled), only PC differs, by one; the cost is
\* 1 byte / 4 cycles
UndefinedIsSoftNop ==
    RanUndefined =>
        /\ step.ivm = set_pc(disable_bios(step.pre),
                             wrapping_add16(pc(step.pre), 1))
        /\ step.iclock = Clock(1, 4)

\* C13: an undefined opcode never aborts: a step asked to run one completes;
\* its handler reads no byte after the opcode (PC moves by one), costs
\* 1 byte / 4 cycles and changes nothing else; the step leaves PC at the byte
\* after the opcode, which the next step executes (or, as after any
\* instruction, at the vector of an interrupt the step ended by servicing).
C13_UndefinedIsSoftNop ==
    /\ [](/\ UndefinedIsSoftNop
          /\ RanUndefined =>
                pc(vm) = IF serviced(step) = "none"
                         THEN wrapping_add16(pc(step.pre), 1)
                         ELSE pc(step.svc))
    /\ [][AskedUndefined => step'.kind = "exec"]_vars

\* C13 happens: 0xDD has run after the instruction at the cartridge entry
\* with no interrupt to service; it cost 4 cycles and left PC at the next byte.
C13_Witness ==
    /\ RanUndefined
    /\ step.opcode = \hDD
    /\ pc(step.pre) = CartridgeEntry + 1
    /\ serviced(step) = "none"
    /\ step.iclock = Clock(1, 4)
    /\ pc(vm) = CartridgeEntry + 2

-----------------------------------------------------------------------------
(* The address decoder on its own: wb and ww applied at the edges of every *)
(* range of the memory map, over a loaded cartridge.                       *)

MmuSteps == 1

\* The first and last address of every arm of the decoder, the last address
\* from which a word fits in its range, and the two interrupt registers
Addresses ==
    {\h0000, \h00FF, \h0100, \h3FFF, \h4000, \h7FFE, \h7FFF,
     \h8000, \h9FFE, \h9FFF, \hA000, \hBFFF, \hC000, \hCFFF,
     \hD000, \hDFFF, \hE000, \hEFFF, \hF000, \hFDFF,
     \hFE00, \hFE9E, \hFE9F, \hFEA0, \hFF0F, \hFF7F,
     \hFF80, \hFFFD, \hFFFE, \hFFFF}

Bytes == {\h00, \h5A, \hFF}

Words == {\h0000, \h00FF, \h1234, \hFF00, \hFFFF}

\* A cartridge image with a byte at each edge of both ROM banks
Cartridge ==
    {<<\h0000, \h31>>, <<\h00FF, \h50>>, <<\h0100, \hC3>>, <<\h3FFF, \h3F>>,
     <<\h4000, \h40>>, <<\h7FFE, \h7E>>, <<\h7FFF, \h7F>>}

RECURSIVE load_image(_, _)
load_image(image, v) ==
    IF image = {} THEN v
    ELSE Let(CHOOSE e \in image : TRUE, LAMBDA e :
             load_image(image \ {e}, poke(e[1], e[2], v)))

\* The machine with the cartridge loaded, before or after the boot ROM has
\* been switched off
InitMmu ==
    \E latch \in BOOLEAN :
        InitWith([load_image(Cartridge, Vm_default) EXCEPT !.mmu.bios_enabled = latch])

WriteByte(addr, value) ==
    /\ ~vm.panicked
    /\ icount < MmuSteps
    /\ vm' = wb(addr, value, vm)
    /\ step' = [kind |-> "wb", pre |-> vm, addr |-> addr, value |-> value]
    /\ icount' = icount + 1
    /\ UNCHANGED <<overflow_checks, trace>>

WriteWord(addr, value) ==
    /\ ~vm.panicked
    /\ icount < MmuSteps
    /\ vm' = ww(addr, value, vm)
    /\ step' = [kind |-> "ww", pre |-> vm, addr |-> addr, value |-> value]
    /\ icount' = icount + 1
    /\ UNCHANGED <<overflow_checks, trace>>

NextMmu ==
    \/ \E addr \in Addresses : \E value \in Bytes : WriteByte(addr, value)
    \/ \E addr \in Addresses : \E value \in Words : WriteWord(addr, value)

SpecMmu == InitMmu /\ [][NextMmu]_vars

\* C14: a byte written to 0x0000-0x7FFF is dropped without an error: every
\* bank, the boot latch and both interrupt registers are as before, and a
\* read at the address returns what it returned before.
C14_RomWriteDiscarded ==
    (step.kind = "wb" /\ step.addr <= \h7FFF) =>
        /\ ~vm.panicked
        /\ vm.mmu = step.pre.mmu
        /\ vm = step.pre
        /\ rb(step.addr, vm) = rb(step.addr, step.pre)

\* C14 happens: 0x5A was written to 0x4000, where the cartridge holds 0x40,
\* and 0x40 is still read there.
C14_Witness ==
    /\ step.kind = "wb"
    /\ step.addr = \h4000
    /\ step.value = \h5A
    /\ rb(\h4000, step.pre) = \h40
    /\ rb(\h4000, vm) = \h40

\* The banks a program can write: VRAM, external RAM, work RAM and its echo,
\* OAM, high RAM
writable(addr) ==
    \/ addr >= \h8000 /\ addr <= \hFE9F
    \/ addr >= \hFF80 /\ addr <= \hFFFE

\* C15: for a and a + 1 in writable banks, after ww(a, v) the byte at a is
\* the low byte of v, the byte at a + 1 is its high byte, and rw(a) is v.
C15_WordRoundTrip ==
    (step.kind = "ww" /\ writable(step.addr) /\ writable(step.addr + 1)) =>
        /\ ~vm.panicked
        /\ rb(step.addr, vm) = step.value % 256
        /\ rb(step.addr + 1, vm) = step.value \div 256
        /\ rw(step.addr, vm) = step.value

\* C15 happens: 0x1234 was stored across the end of the echo range and the
\* start of OAM; 0x34 is read at 0xFDFF, 0x12 at 0xFE00.
C15_Witness ==
    /\ step.kind = "ww"
    /\ step.addr = \hFDFF
    /\ step.value = \h1234
    /\ rb(\hFDFF, vm) = \h34
    /\ rb(\hFE00, vm) = \h12
    /\ rw(\hFDFF, vm) = \h1234

-----------------------------------------------------------------------------
(* Instruction handlers on their own: the handler dispatch selects for an  *)
(* opcode is applied to the machine; nothing is fetched and no service     *)
(* check follows.                                                          *)

\* What the handler that returned x leaves behind; an abort as in Return
Returned(opcode, cb, x) ==
    IF x.vm.panicked
    THEN /\ vm' = panic(vm)
         /\ step' = [kind |-> "abort", pre |-> vm, opcode |-> opcode, cb |-> cb]
         /\ trace' = trace
    ELSE /\ vm' = x.vm
         /\ step' = [kind |-> "inst", pre |-> vm, opcode |-> opcode, cb |-> cb,
                     iclock |-> x.clock]
         /\ trace' = Append(trace, [opcode |-> opcode, cb |-> cb, pre |-> vm])

\* The handler of a primary opcode runs (at most n handlers run)
Execute(opcode, n) ==
    /\ ~vm.panicked
    /\ icount < n
    /\ Returned(opcode, -1, dispatch(opcode, vm))
    /\ icount' = icount + 1
    /\ UNCHANGED overflow_checks

\* The handler of a 0xCB-prefixed opcode runs
ExecuteCb(opcode, n) ==
    /\ ~vm.panicked
    /\ icount < n
    /\ Returned(\hCB, opcode, dispatch_cb(opcode, vm))
    /\ icount' = icount + 1
    /\ UNCHANGED overflow_checks

\* The handler of opcode has just run from step.pre and returned
Handled(opcode) == step.kind = "inst" /\ step.opcode = opcode /\ step.cb = -1

-----------------------------------------------------------------------------
(* Packed decimal arithmetic: ADD A,B and DAA over every pair of two-digit *)
(* packed decimal numbers.                                                 *)

BcdSteps == 2

\* The bytes whose two nibbles are decimal digits
BcdBytes == {16 * hi + lo : hi \in 0..9, lo \in 0..9}

decode_bcd(x) == 10 * (x \div 16) + (x % 16)

to_bcd(n) == 16 * (n \div 10) + (n % 10)

InitBcd ==
    \E a \in BcdBytes : \E b \in BcdBytes :
        InitWith(set_reg(set_reg(Vm_default, Register.A, a), Register.B, b))

\* 0x80 ADD A,B; 0x27 DAA
NextBcd == \E opcode \in {\h80, \h27} : Execute(opcode, BcdSteps)

SpecBcd == InitBcd /\ [][NextBcd]_vars

\* ADD A,B and then DAA have run, and nothing else
AddedThenAdjusted ==
    /\ Len(trace) = 2
    /\ trace[1].opcode = \h80
    /\ trace[2].opcode = \h27

\* C16: with A = a and b packed decimal, after ADD A,b and DAA A is the
\* packed decimal of (a + b) mod 100 and Carry is set iff a + b >= 100.
C16_DaaRoundTrip ==
    AddedThenAdjusted =>
        LET sum == decode_bcd(reg(trace[1].pre, Register.A))
                     + decode_bcd(reg(trace[1].pre, Register.B))
        IN  /\ reg(vm, Register.A) = to_bcd(sum % 100)
            /\ flag(vm, Flag.C) <=> (sum >= 100)

\* C16 happens: 0x58 + 0x67 gives A = 0x25 with Carry (58 + 67 = 125), after
\* the binary sum 0xBF went through both digit adjustments.
C16_Witness ==
    /\ AddedThenAdjusted
    /\ reg(trace[1].pre, Register.A) = \h58
    /\ reg(trace[1].pre, Register.B) = \h67
    /\ reg(trace[2].pre, Register.A) = \hBF
    /\ reg(vm, Register.A) = \h25
    /\ flag(vm, Flag.C)

-----------------------------------------------------------------------------
(* DAA over every accumulator value and every setting of the four flags    *)

DaaSteps == 1

\* F with any of Z, N, H, C set (the low nibble of F is always zero)
FlagBytes == {16 * k : k \in 0..15}

InitDaa ==
    \E a \in 0..255 : \E f \in FlagBytes :
        InitWith(set_reg(set_reg(Vm_default, Register.A, a), Register.F, f))

\* 0x27 DAA
NextDaa == Execute(\h27, DaaSteps)

SpecDaa == InitDaa /\ [][NextDaa]_vars

\* The value the adjustment after an addition produces, before it is cut to
\* a byte: 0x06 more if H is set or the low digit is above 9, then 0x60 more
\* if C is set or the value is above 0x9F
adjusted_sum(a, h, c) ==
    LET low == IF h \/ a % 16 > 9 THEN a + 6 ELSE a
    IN  IF c \/ low > \h9F THEN low + \h60 ELSE low

\* C20: after DAA H is clear, Z is set iff A is zero (as when A = 0x9A with
\* N, H, C clear is adjusted to 0x100 and A becomes 0x00), N is as before,
\* and Carry is set iff it was set before or the adjustment produced a value
\* with bit 8 set.
C20_DaaFlags ==
    Handled(\h27) =>
        /\ ~flag(vm, Flag.H)
        /\ flag(vm, Flag.Z) <=> (reg(vm, Register.A) = 0)
        /\ flag(vm, Flag.N) <=> flag(step.pre, Flag.N)
        /\ flag(vm, Flag.C) <=>
              \/ flag(step.pre, Flag.C)
              \/ /\ ~flag(step.pre, Flag.N)
                 /\ adjusted_sum(reg(step.pre, Register.A),
                                 flag(step.pre, Flag.H),
                                 flag(step.pre, Flag.C)) >= \h100

-----------------------------------------------------------------------------
(* RLC repeated on a register, from every byte and every flag setting      *)

RotSteps == 8

\* 0xCB 0x00 RLC B and 0xCB 0x07 RLC A, the first and last register slots
RlcOpcodes == {\h00, \h07}

\* The register an RLC opcode rotates
rlc_register(opcode) == IF opcode = \h00 THEN Register.B ELSE Register.A

InitRot ==
    \E value \in 0..255 : \E f \in FlagBytes :
        InitWith(set_reg(set_reg(set_reg(Vm_default, Register.A, value),
                                 Register.B, value), Register.F, f))

\* The same rotation is applied again and again
NextRot ==
    \E opcode \in RlcOpcodes :
        /\ IF trace = <<>> THEN TRUE ELSE trace[Len(trace)].cb = opcode
        /\ ExecuteCb(opcode, RotSteps)

SpecRot == InitRot /\ [][NextRot]_vars

\* C17 as stated: after RLC has been applied eight times to a register
\* holding v, the register holds v again and Carry is bit 7 of v, whatever
\* the flags were.
C17_CarryIsOriginalBit7 ==
    Len(trace) = 8 =>
        LET r == rlc_register(trace[1].cb)
            v == reg(trace[1].pre, r)
        IN  /\ reg(vm, r) = v
            /\ flag(vm, Flag.C) <=> (v >= \h80)

\* C17, amended: after RLC has been applied eight times to a register
\* holding v, the register holds v again and Carry is bit 0 of v (bit 7 of
\* the value the eighth rotation took, which is v rotated left seven times),
\* whatever the flags were; Carry is bit 7 of v after the first rotation.
C17_CarryIsOriginalBit0 ==
    /\ Len(trace) = 8 =>
          LET r == rlc_register(trace[1].cb)
              v == reg(trace[1].pre, r)
          IN  /\ reg(vm, r) = v
              /\ flag(vm, Flag.C) <=> (v % 2 = 1)
    /\ Len(trace) = 1 =>
          LET r == rlc_register(trace[1].cb)
              v == reg(trace[1].pre, r)
          IN  /\ reg(vm, r) = ((2 * v) % 256) + (v \div 128)
              /\ flag(vm, Flag.C) <=> (v >= \h80)

\* C17 happens: B = 0x80 with all flags set went to 0x01 with Carry in the
\* first RLC B, and is 0x80 again after the eighth, with Carry clear.
C17_Witness ==
    /\ Len(trace) = 8
    /\ trace[1].cb = \h00
    /\ reg(trace[1].pre, Register.B) = \h80
    /\ reg(trace[1].pre, Register.F) = \hF0
    /\ reg(trace[2].pre, Register.B) = \h01
    /\ flag(trace[2].pre, Flag.C)
    /\ reg(vm, Register.B) = \h80
    /\ ~flag(vm, Flag.C)

-----------------------------------------------------------------------------
(* Conditional relative jumps, from both ends of the address space and     *)
(* under every flag setting.                                               *)

JrSteps == 1

\* 0x20 JR NZ, 0x28 JR Z, 0x30 JR NC, 0x38 JR C
CondJrOpcodes == {\h20, \h28, \h30, \h38}

\* Displacements: none, the least and greatest forward, the greatest, the
\* instruction itself and the least backward
Displacements == {\h00, \h01, \h7F, \h80, \hFE, \hFF}

\* Where the jump sits: the bottom of ROM, the cartridge entry, the top of
\* high RAM (the address after the instruction is then 0xFFFF)
JrAddresses == {\h0000, CartridgeEntry, \hFFFD}

\* The machine after the boot ROM has been switched off, with a jump at PC
InitJr ==
    \E opcode \in CondJrOpcodes : \E d \in Displacements :
    \E a \in JrAddresses : \E f \in FlagBytes :
        InitWith(set_reg(load(<<opcode, d>>, a,
                              set_pc([Vm_default EXCEPT !.mmu.bios_enabled = FALSE], a)),
                         Register.F, f))

NextJr == Step(JrSteps)

SpecJr == InitJr /\ [][NextJr]_vars

\* The condition of a conditional relative jump holds in v
jr_condition(opcode, v) ==
    CASE opcode = \h20 -> ~flag(v, Flag.Z)
      [] opcode = \h28 -> flag(v, Flag.Z)
      [] opcode = \h30 -> ~flag(v, Flag.C)
      [] opcode = \h38 -> flag(v, Flag.C)

\* The address d away from a, d read as a signed byte
displaced(a, d) ==
    IF d <= \h7F THEN (a + d) % 65536
    ELSE (a + 65536 - (\h100 - d)) % 65536

\* C18: a conditional JR whose condition fails costs 8 cycles and leaves PC
\* after its two bytes; one whose condition holds costs 12 cycles and leaves
\* PC the signed displacement away from there, modulo 2^16.
C18_CondJrReadsDisplacement ==
    (Executed /\ step.opcode \in CondJrOpcodes) =>
        LET after == (pc(step.pre) + 2) % 65536
            d     == rb((pc(step.pre) + 1) % 65536, step.pre)
        IN  IF jr_condition(step.opcode, step.pre)
            THEN /\ step.iclock.t = 12
                 /\ pc(step.ivm) = displaced(after, d)
                 /\ pc(vm) = displaced(after, d)
            ELSE /\ step.iclock.t = 8
                 /\ pc(step.ivm) = after
                 /\ pc(vm) = after

\* C18 happens: JR NZ,-128 at 0x0000 with Z set was not taken, cost 8 cycles
\* and left PC at 0x0002.
C18_Witness ==
    /\ Executed
    /\ step.opcode = \h20
    /\ pc(step.pre) = 0
    /\ rb(1, step.pre) = \h80
    /\ flag(step.pre, Flag.Z)
    /\ step.iclock.t = 8
    /\ pc(vm) = 2

-----------------------------------------------------------------------------
(* The stack: PUSH and POP of every pair, with SP in every writable bank   *)

StackSteps == 2

\* 0xC5 PUSH BC, 0xD5 PUSH DE, 0xE5 PUSH HL, 0xF5 PUSH AF
PushOpcodes == {\hC5, \hD5, \hE5, \hF5}

\* 0xC1 POP BC, 0xD1 POP DE, 0xE1 POP HL, 0xF1 POP AF
PopOpcodes == {\hC1, \hD1, \hE1, \hF1}

\* The pair a PUSH or POP opcode names
pair_of(opcode) ==
    CASE opcode \in {\hC5, \hC1} -> [h |-> Register.B, l |-> Register.C]
      [] opcode \in {\hD5, \hD1} -> [h |-> Register.D, l |-> Register.E]
      [] opcode \in {\hE5, \hE1} -> [h |-> Register.H, l |-> Register.L]
      [] opcode \in {\hF5, \hF1} -> [h |-> Register.A, l |-> Register.F]

\* Register contents, all different, the low registers with bits in both
\* nibbles; F is set apart
RegisterFixtures ==
    {(0 :> \hA1 @@ 1 :> \hB2 @@ 2 :> \hC3 @@ 3 :> \hD4 @@ 4 :> \hE5 @@
      5 :> \h86 @@ 6 :> \h7F @@ 7 :> 0),
     (0 :> \h00 @@ 1 :> \hFF @@ 2 :> \h0F @@ 3 :> \h01 @@ 4 :> \h80 @@
      5 :> \hF0 @@ 6 :> \h08 @@ 7 :> 0)}

\* SP after reset, and SP with its two bytes below in VRAM, in external RAM,
\* across the two work-RAM banks, across work RAM and its echo, across the
\* echo and OAM
StackPointers == {\hFFFE, \h8002, \hA002, \hD001, \hE001, \hFE01}

StackFlags == {\h00, \h50, \hA0, \hF0}

InitStack ==
    \E rs \in RegisterFixtures : \E f \in StackFlags : \E s \in StackPointers :
        InitWith(set_sp(set_reg([Vm_default EXCEPT !.cpu.registers.rs = rs],
                                Register.F, f), s))

NextStack ==
    \E opcode \in PushOpcodes \cup PopOpcodes : Execute(opcode, StackSteps)

SpecStack == InitStack /\ [][NextStack]_vars

\* s, s - 1 and s - 2 are addresses of writable banks
stack_writable(s) == s >= 2 /\ writable(s) /\ writable(s - 1) /\ writable(s - 2)

\* A PUSH has just run, and a POP after it
PushedThenPopped ==
    /\ Len(trace) = 2
    /\ trace[1].opcode \in PushOpcodes
    /\ trace[2].opcode \in PopOpcodes
    /\ stack_writable(sp(trace[1].pre))

\* C19: with SP, SP - 1 and SP - 2 in writable banks, PUSH of (h, l) takes 2
\* from SP, stores l at the new SP and h above it, and changes no register
\* or flag; a POP into (h2, l2) after it sets h2 = h and l2 = l (l AND 0xF0
\* when l2 is F), puts SP back and changes no flag unless it pops AF.
C19_PushPopInverse ==
    /\ (step.kind = "inst" /\ step.opcode \in PushOpcodes
          /\ stack_writable(sp(step.pre))) =>
          LET p == pair_of(step.opcode)
          IN  /\ sp(vm) = (sp(step.pre) + 65536 - 2) % 65536
              /\ rb(sp(vm), vm) = reg(step.pre, p.l)
              /\ rb(sp(vm) + 1, vm) = reg(step.pre, p.h)
              /\ vm.cpu.registers.rs = step.pre.cpu.registers.rs
    /\ PushedThenPopped =>
          LET p == pair_of(trace[1].opcode)
              q == pair_of(trace[2].opcode)
              v == trace[1].pre
          IN  /\ reg(vm, q.h) = reg(v, p.h)
              /\ reg(vm, q.l) = IF q.l = Register.F
                                THEN And(reg(v, p.l), \hF0)
                                ELSE reg(v, p.l)
              /\ sp(vm) = sp(v)
              /\ q.l # Register.F => reg(vm, Register.F) = reg(v, Register.F)
              /\ \A r \in (0..7) \ {q.h, q.l} : reg(vm, r) = reg(v, r)

\* C19 happens: with SP = 0xE001, PUSH HL stored L = 0x7F at 0xDFFF and
\* H = 0x86 at 0xE000, and POP AF after it left A = 0x86, F = 0x70 and
\* SP = 0xE001.
C19_Witness ==
    /\ PushedThenPopped
    /\ trace[1].opcode = \hE5
    /\ trace[2].opcode = \hF1
    /\ sp(trace[1].pre) = \hE001
    /\ reg(trace[1].pre, Register.H) = \h86
    /\ reg(trace[1].pre, Register.L) = \h7F
    /\ sp(step.pre) = \hDFFF
    /\ rb(\hDFFF, vm) = \h7F
    /\ rb(\hE000, vm) = \h86
    /\ reg(vm, Register.A) = \h86
    /\ reg(vm, Register.F) = \h70
    /\ sp(vm) = \hE001

-----------------------------------------------------------------------------
(* The rate of TIMA                                                        *)

\* C21: with the run flag set, an advance of t cycles from a TIMA
\* sub-counter n makes (n + t) div d ticks, d = 16, 1, 8, 4 for mode 0, 1,
\* 2, 3, and leaves the sub-counter at (n + t) mod d; with the run flag
\* clear TIMA, its sub-counter and the pending timer flag are left alone.
C21_TimaRate ==
    Advanced =>
        LET t == step.pre.cpu.timers
            d == CASE t.tac.timer_mode = 0 -> 16 [] t.tac.timer_mode = 1 -> 1
                   [] t.tac.timer_mode = 2 -> 8  [] t.tac.timer_mode = 3 -> 4
            ticks == (t.imp_nc + step.iclock.t) \div d
        IN  IF t.tac.running
            THEN /\ vm.cpu.timers.imp_nc = (t.imp_nc + step.iclock.t) % d
                 /\ vm.cpu.timers.tima = tima_after(t.tima, t.tma, ticks)
            ELSE /\ vm.cpu.timers.imp_nc = t.imp_nc
                 /\ vm.cpu.timers.tima = t.tima
                 /\ vm.mmu.ifr.timer = step.pre.mmu.ifr.timer

\* C21 happens: running in mode 10 with 15 cycles in the sub-counter, 20
\* cycles made 4 ticks (TIMA 0x00 to 0x04) and left 3 cycles over.
C21_Witness ==
    /\ Advanced
    /\ step.pre.cpu.timers.tac = [timer_mode |-> 2, running |-> TRUE]
    /\ step.pre.cpu.timers.imp_nc = 15
    /\ step.pre.cpu.timers.tima = 0
    /\ step.iclock.t = 20
    /\ vm.cpu.timers.tima = 4
    /\ vm.cpu.timers.imp_nc = 3

-----------------------------------------------------------------------------
(* Interrupt entry and return: EI at the cartridge entry, RETI at every    *)
(* vector, under several masks and stacks.                                 *)

RetiSteps == 4

\* EI at the entry (the bytes after it read as NOP) and RETI at the five
\* vectors
HandlerImage ==
    {<<CartridgeEntry, \hFB>>, <<\h40, \hD9>>, <<\h48, \hD9>>, <<\h50, \hD9>>,
     <<\h58, \hD9>>, <<\h60, \hD9>>}

\* Enable masks: all sources, timer alone
RetiEnables == {\h1F, \h04}

\* Pending masks: vblank, timer, joypad, all five
RetiPendings == {\h01, \h04, \h10, \h1F}

\* SP after reset, in work RAM, with the next push on the interrupt
\* registers, and with the next push across the top of the address space
RetiStacks == {\hFFFE, \hD000, \hFF11, \h0001}

InitReti ==
    \E ie \in RetiEnables : \E if \in RetiPendings : \E s \in RetiStacks :
        InitWith(set_sp(set_pc([load_image(HandlerImage, Vm_default)
                                   EXCEPT !.mmu.bios_enabled = FALSE,
                                          !.mmu.ier = u8_to_interrupt(ie),
                                          !.mmu.ifr = u8_to_interrupt(if)],
                               CartridgeEntry), s))

NextReti == Step(RetiSteps)

SpecReti == InitReti /\ [][NextReti]_vars

\* The step that has just completed serviced an interrupt with the two bytes
\* below SP in writable banks
ServicedOnStack ==
    /\ Executed
    /\ serviced(step) # "none"
    /\ sp(step.mid) >= 2
    /\ writable(sp(step.mid) - 1)
    /\ writable(sp(step.mid) - 2)

\* C22: a service with SP - 1 and SP - 2 in writable banks sets the state
\* Disabled, takes 2 from SP, stores there, low byte first, the PC of the
\* instruction that was to run next, and costs 1 byte / 16 cycles; a RETI
\* run next sets PC to that stored value, SP to its value before the
\* service, and the state Enabled.
C22_EntryRetiRoundTrip ==
    /\ [](ServicedOnStack =>
            /\ step.svc.cpu.interrupt = "IDisabled"
            /\ vm.cpu.interrupt = "IDisabled"
            /\ sp(step.svc) = sp(step.mid) - 2
            /\ rb(sp(step.svc), step.svc) = pc(step.mid) % 256
            /\ rb(sp(step.svc) + 1, step.svc) = pc(step.mid) \div 256
            /\ step.sclock = Clock(1, 16))
    /\ [][(ServicedOnStack /\ step'.kind = "exec" /\ step'.opcode = \hD9) =>
            /\ pc(step'.ivm) = pc(step.mid)
            /\ sp(step'.ivm) = sp(step.mid)
            /\ step'.ivm.cpu.interrupt = "IEnabled"]_vars

\* C22 happens: vblank was serviced after the NOP at 0x0101 with SP = 0xD000
\* (0x0102 stored at 0xCFFE), and the RETI at 0x0040 has returned to 0x0102
\* with SP = 0xD000 and interrupts enabled.
C22_Witness ==
    /\ Executed
    /\ step.opcode = \hD9
    /\ pc(step.pre) = \h40
    /\ sp(step.pre) = \hCFFE
    /\ rw(\hCFFE, step.pre) = \h0102
    /\ Len(trace) = 3
    /\ trace[2].irq = "vblank"
    /\ pc(step.ivm) = \h0102
    /\ sp(step.ivm) = \hD000
    /\ step.ivm.cpu.interrupt = "IEnabled"

-----------------------------------------------------------------------------
(* The accumulator rotates and the register forms they reuse               *)

RotASteps == 1

\* 0x07 RLCA / 0xCB 0x07 RLC A, 0x0F RRCA / RRC A, 0x17 RLA / RL A,
\* 0x1F RRA / RR A: the two tables use the same four bytes
RotAOpcodes == {\h07, \h0F, \h17, \h1F}

\* Flags all clear, Carry alone, all but Carry, all set
RotAFlags == {\h00, \h10, \hE0, \hF0}

InitRotA ==
    \E a \in 0..255 : \E f \in RotAFlags :
        InitWith(set_reg(set_reg(Vm_default, Register.A, a), Register.F, f))

NextRotA ==
    \/ \E opcode \in RotAOpcodes : Execute(opcode, RotASteps)
    \/ \E opcode \in RotAOpcodes : ExecuteCb(opcode, RotASteps)

SpecRotA == InitRotA /\ [][NextRotA]_vars

\* An accumulator rotate has just run
RotatedA == step.kind = "inst" /\ step.cb = -1 /\ step.opcode \in RotAOpcodes

\* C23: RLCA, RRCA, RLA and RRA leave in A and in Carry what RLC A, RRC A,
\* RL A and RR A leave there from the same machine, leave N and H clear, and
\* leave Z clear, also when A ends zero.
C23_AccumulatorRotates ==
    RotatedA =>
        LET form == dispatch_cb(step.opcode, step.pre).vm
        IN  /\ reg(vm, Register.A) = reg(form, Register.A)
            /\ flag(vm, Flag.C) <=> flag(form, Flag.C)
            /\ ~flag(vm, Flag.N) /\ ~flag(form, Flag.N)
            /\ ~flag(vm, Flag.H) /\ ~flag(form, Flag.H)
            /\ ~flag(vm, Flag.Z)
            /\ flag(form, Flag.Z) <=> (reg(vm, Register.A) = 0)

\* C23 happens: RLA on A = 0x80 with Carry clear and Z set left A = 0x00
\* with Carry set and Z clear, where RL A sets Z.
C23_Witness ==
    /\ RotatedA
    /\ step.opcode = \h17
    /\ reg(step.pre, Register.A) = \h80
    /\ reg(step.pre, Register.F) = \hE0
    /\ reg(vm, Register.A) = 0
    /\ reg(vm, Register.F) = \h10
    /\ flag(dispatch_cb(\h17, step.pre).vm, Flag.Z)

-----------------------------------------------------------------------------
(* Subtraction and comparison: SUB B, SBC A,B and CP B                     *)

SubSteps == 1

\* 0x90 SUB B, 0x98 SBC A,B, 0xB8 CP B
SubOpcodes == {\h90, \h98, \hB8}

\* Operands at the ends of both nibbles
Subtrahends == {\h00, \h01, \h0F, \h10, \h7F, \h80, \hF0, \hFF}

InitSub ==
    \E a \in 0..255 : \E b \in Subtrahends : \E f \in RotAFlags :
        InitWith(set_reg(set_reg(set_reg(Vm_default, Register.A, a),
                                 Register.B, b), Register.F, f))

NextSub == \E opcode \in SubOpcodes : Execute(opcode, SubSteps)

SpecSub == InitSub /\ [][NextSub]_vars

\* A subtraction or comparison has just run
Subtracted == step.kind = "inst" /\ step.opcode \in SubOpcodes

\* The flag byte with Z, N, H, C as given
flag_byte(z, n, h, c) == 128 * b2u(z) + 64 * b2u(n) + 32 * b2u(h) + 16 * b2u(c)

\* C24: with c the old Carry for SBC and 0 for SUB and CP, the result is
\* (A - b - c) mod 256; Z iff it is 0, N set, H iff (b AND 0x0F) + c >
\* (A AND 0x0F), C iff b + c > A, and nothing else in F; SUB and SBC store
\* the result in A, CP leaves A.
C24_SubSbcCp ==
    Subtracted =>
        LET a == reg(step.pre, Register.A)
            b == reg(step.pre, Register.B)
            c == IF step.opcode = \h98 THEN b2u(flag(step.pre, Flag.C)) ELSE 0
            r == (a + 512 - b - c) % 256
        IN  /\ reg(vm, Register.A) = IF step.opcode = \hB8 THEN a ELSE r
            /\ reg(vm, Register.F) =
                  flag_byte(r = 0, TRUE, (b % 16) + c > a % 16, b + c > a)
            /\ reg(vm, Register.B) = b

\* C24 happens: SBC A,B with A = 0x10, B = 0x0F and Carry set gave 0x00 with
\* Z, N and H set and C clear (the half-carry comes from the carry-in).
C24_Witness ==
    /\ Subtracted
    /\ step.opcode = \h98
    /\ reg(step.pre, Register.A) = \h10
    /\ reg(step.pre, Register.B) = \h0F
    /\ reg(step.pre, Register.F) = \h10
    /\ reg(vm, Register.A) = \h00
    /\ reg(vm, Register.F) = \hE0

-----------------------------------------------------------------------------
(* The interrupt state between steps                                       *)

Transitional == {"IDisableNextInst", "IEnableNextInst"}

\* C25: between steps (after reset, after every completed step, and while
\* the host sets the machine up) the interrupt state is Enabled or Disabled;
\* a transitional state is seen only right after the instruction of a step
\* that executes DI or EI.
C25_SettledBetweenSteps ==
    /\ vm.cpu.interrupt \in {"IEnabled", "IDisabled"}
    /\ Executed =>
          /\ step.pre.cpu.interrupt \in {"IEnabled", "IDisabled"}
          /\ step.ivm.cpu.interrupt \in Transitional =>
                step.opcode \in {\hF3, \hFB}

\* C25 happens: DI has run in a machine with interrupts enabled; the
\* instruction left DisableNextInstruction and the step ended Disabled.
C25_Witness ==
    /\ Executed
    /\ step.opcode = \hF3
    /\ step.pre.cpu.interrupt = "IEnabled"
    /\ step.ivm.cpu.interrupt = "IDisableNextInst"
    /\ vm.cpu.interrupt = "IDisabled"

-----------------------------------------------------------------------------
(* Masked interrupts                                                       *)

\* C26: a step that begins Disabled and executes neither EI nor RETI (DI
\* included) services no interrupt: the controller clears no pending bit,
\* pushes nothing and does not redirect PC, whatever is enabled and pending.
C26_MaskedNeverServiced ==
    (Executed /\ step.pre.cpu.interrupt = "IDisabled"
              /\ step.opcode \notin {\hFB, \hD9}) =>
        /\ serviced(step) = "none"
        /\ step.svc.mmu.ifr = step.mid.mmu.ifr
        /\ sp(step.svc) = sp(step.mid)
        /\ pc(vm) = pc(step.ivm)

-----------------------------------------------------------------------------
(* DIV and the machine clock                                               *)

\* The machine clock's cycle field, modulo 2^10
clock_cycles(v) == v.cpu.clock.t[1] % 1024

\* C27: DIV stays in lockstep with the machine clock: in every state reached
\* from reset by steps that write no timer register, 4 * DIV plus the DIV
\* sub-counter is congruent to the clock's cycle field modulo 1024, the
\* sub-counter staying below 4; every cost added to the clock in a step, the
\* instruction's and the service's, has been fed to the timer as well.
C27_DivLockstep ==
    /\ div_cycles(vm) = clock_cycles(vm)
    /\ vm.cpu.timers.imp_4c < 4
    /\ Executed =>
          /\ div_cycles(step.mid) = clock_cycles(step.mid)
          /\ clock_cycles(vm) =
                (clock_cycles(step.pre) + step.iclock.t + step.sclock.t) % 1024

\* A step that serviced an interrupt, so that both costs were counted, and
\* DIV has ticked
C27_Witness ==
    /\ Executed
    /\ step.iclock.t > 0
    /\ step.sclock.t > 0
    /\ vm.cpu.timers.div > 0
    /\ div_cycles(vm) = clock_cycles(vm)

-----------------------------------------------------------------------------
(* HALT                                                                    *)

HaltSteps == 2

\* The byte after the HALT at the cartridge entry: NOP, INC A, HALT again
HaltFollowers == {\h00, \h3C, \h76}

\* Enable and pending masks: none, timer alone, all sources
HaltEnables == {\h00, \h1F}
HaltPendings == {\h00, \h04, \h1F}

\* DIV and TIMA one cycle away from their next tick, the counter on or off
HaltTimers ==
    [div : {\hFF}, tima : {\hFF}, tma : {\h05},
     tac : [timer_mode : {1}, running : BOOLEAN],
     imp_4c : {3}, imp_nc : {0}]

InitHalt ==
    \E b \in HaltFollowers : \E i \in {"IDisabled", "IEnabled"} :
    \E ie \in HaltEnables : \E if \in HaltPendings : \E t \in HaltTimers :
        InitWith(set_pc([load(<<\h76, b>>, CartridgeEntry, Vm_default)
                            EXCEPT !.cpu.interrupt = i,
                                   !.cpu.timers = t,
                                   !.mmu.ier = u8_to_interrupt(ie),
                                   !.mmu.ifr = u8_to_interrupt(if)],
                        CartridgeEntry))

NextHalt == Step(HaltSteps)

SpecHalt == InitHalt /\ [][NextHalt]_vars

\* The step that has just completed executed HALT
RanHalt == Ran(\h76)

\* C28: HALT does not stop execution.  The instruction moves PC by one and
\* changes nothing else (no register, flag, memory byte or interrupt state);
\* it adds 0 bytes and 0 cycles to the clock and DIV and TIMA stay as they
\* were; the service check runs when the state is Enabled and services an
\* enabled pending source; the end-of-step rule is applied; and the step that
\* follows a HALT with nothing serviced completes, having fetched the byte
\* after the HALT.
C28_HaltIsPlaceholder ==
    /\ [](RanHalt =>
            /\ step.ivm = set_pc(disable_bios(step.pre),
                                 wrapping_add16(pc(step.pre), 1))
            /\ step.iclock = Clock(0, 0)
            /\ step.mid = step.ivm
            /\ step.checked <=> step.pre.cpu.interrupt = "IEnabled"
            /\ (step.checked /\ armed(step.mid)) <=> serviced(step) # "none"
            /\ vm.cpu.interrupt = next_interrupt_state(step.svc.cpu.interrupt)
            /\ serviced(step) = "none" =>
                  /\ vm = step.ivm
                  /\ pc(vm) = wrapping_add16(pc(step.pre), 1))
    /\ [][(RanHalt /\ serviced(step) = "none" /\ icount' = icount + 1) =>
            /\ step'.kind = "exec"
            /\ pc(step'.pre) = wrapping_add16(pc(step.pre), 1)
            /\ step'.opcode = rb(wrapping_add16(pc(step.pre), 1), vm)]_vars

\* C28 happens: HALT at the cartridge entry with the counter running and
\* nothing to service left DIV, TIMA and the clock alone, and the next step
\* executed the INC A that follows it
C28_Witness ==
    /\ Ran(\h3C)
    /\ Len(trace) = 2
    /\ Prev.opcode = \h76
    /\ pc(step.pre) = CartridgeEntry + 1
    /\ step.pre.cpu.timers.tac.running
    /\ step.pre.cpu.timers.tima = \hFF
    /\ step.pre.cpu.timers.div = \hFF
    /\ step.pre.cpu.clock.t = U64(0)
    /\ reg(vm, Register.A) = wrapping_add8(reg(step.pre, Register.A), 1)

-----------------------------------------------------------------------------
(* The timer interrupt inside a step                                       *)

TimerIrqSteps == 1

\* NOP, EI, DI, LD A,(HL), JP a16: 4, 4, 4, 8 and 16 cycles
TimerIrqOpcodes == {\h00, \hFB, \hF3, \h7E, \hC3}

\* Enable masks: timer alone, all sources, all but the timer
TimerIrqEnables == {\h04, \h1F, \h1B}

\* Pending masks: none, vblank, serial, joypad
TimerIrqPendings == {\h00, \h01, \h08, \h10}

\* TIMA at most two ticks from overflow, reloading far from or close to it
TimerIrqTimers ==
    [div : {0}, tima : {\hFE, \hFF}, tma : {\h00, \hF0, \hFF},
     tac : [timer_mode : {0, 1, 3}, running : BOOLEAN],
     imp_4c : {0}, imp_nc : {0, 15}]

InitTimerIrq ==
    \E op \in TimerIrqOpcodes : \E i \in {"IDisabled", "IEnabled"} :
    \E ie \in TimerIrqEnables : \E if \in TimerIrqPendings :
    \E t \in TimerIrqTimers :
        InitWith(set_pc([load(<<op, \h50, \h01>>, CartridgeEntry, Vm_default)
                            EXCEPT !.cpu.interrupt = i,
                                   !.cpu.timers = t,
                                   !.mmu.ier = u8_to_interrupt(ie),
                                   !.mmu.ifr = u8_to_interrupt(if)],
                        CartridgeEntry))

NextTimerIrq == Step(TimerIrqSteps)

SpecTimerIrq == InitTimerIrq /\ [][NextTimerIrq]_vars

\* The cycles of the instruction of the step that has just completed made
\* TIMA overflow, with the timer source enabled, the state left by the
\* instruction Enabled, and neither vblank nor lcd_stat enabled and pending
TimaOverflowed ==
    /\ Executed
    /\ update_timers(step.iclock,
                     [step.ivm EXCEPT !.mmu.ifr.timer = FALSE]).mmu.ifr.timer
    /\ step.mid.mmu.ier.timer
    /\ step.ivm.cpu.interrupt = "IEnabled"
    /\ ~(step.mid.mmu.ier.vblank /\ step.mid.mmu.ifr.vblank)
    /\ ~(step.mid.mmu.ier.lcd_stat /\ step.mid.mmu.ifr.lcd_stat)

-----------------------------------------------------------------------------
(* Words at the top of the address space                                   *)

WrapSteps == 1

\* LD BC,d16; JP a16; CALL a16; PUSH BC; POP BC; RET
WrapOpcodes == {\h01, \hC3, \hCD, \hC5, \hC1, \hC9}

\* PC after the opcode fetch: the operand is the last byte of the address
\* space and the first, the last two bytes, two bytes of the cartridge
WrapCounters == {\hFFFF, \hFFFE, \h0101}

\* SP: a pop reads the last byte and the first, a push writes them, a pop
\* reads and a push writes below the top
WrapStacks == {\hFFFF, \h0001, \hFFFE, \hD000}

InitWrap ==
    \E p \in WrapCounters : \E s \in WrapStacks :
        InitWith(set_sp(set_pc([load_image(Cartridge, Vm_default)
                                   EXCEPT !.mmu.bios_enabled = FALSE,
                                          !.mmu.ier = u8_to_interrupt(\h15)],
                               p), s))

\* The handler of an instruction with a 16-bit operand or a stack access
\* runs, or the host stores a word
NextWrap ==
    \/ \E opcode \in WrapOpcodes : Execute(opcode, WrapSteps)
    \/ \E addr \in Addresses : \E value \in Words : WriteWord(addr, value)

SpecWrap == InitWrap /\ [][NextWrap]_vars

\* The word read at a with the high byte taken at (a + 1) mod 2^16
word_at(a, v) == w_combine(rb(wrapping_add16(a, 1), v), rb(a, v))

\* C30: 16-bit accesses wrap at the top of the address space and never
\* abort: ww(a, v) stores the low byte at a and the high byte at
\* (a + 1) mod 2^16 for every a, 0xFFFF included; an operand fetch at
\* PC = 0xFFFF and a pop, return, push or call whose word lies across the top
\* complete, with the word read at a and (a + 1) mod 2^16 and PC and SP moved
\* by two modulo 2^16.
C30_WordAccessWraps ==
    /\ ~vm.panicked
    /\ step.kind # "abort"
    /\ step.kind = "ww" =>
          vm = wb(wrapping_add16(step.addr, 1), step.value \div 256,
                  wb(step.addr, step.value % 256, step.pre))
    /\ Handled(\h01) =>
          /\ pc(vm) = wrapping_add16(pc(step.pre), 2)
          /\ get_r16(vm, Register.B, Register.C) = word_at(pc(step.pre), step.pre)
    /\ Handled(\hC3) => pc(vm) = word_at(pc(step.pre), step.pre)
    /\ Handled(\hC1) =>
          /\ sp(vm) = wrapping_add16(sp(step.pre), 2)
          /\ get_r16(vm, Register.B, Register.C) = word_at(sp(step.pre), step.pre)
    /\ Handled(\hC9) =>
          /\ sp(vm) = wrapping_add16(sp(step.pre), 2)
          /\ pc(vm) = word_at(sp(step.pre), step.pre)
    /\ Handled(\hC5) =>
          /\ sp(vm) = wrapping_sub16(sp(step.pre), 2)
          /\ vm = set_sp(wb(wrapping_add16(sp(vm), 1), reg(step.pre, Register.B),
                            wb(sp(vm), reg(step.pre, Register.C), step.pre)),
                         sp(vm))
    /\ Handled(\hCD) =>
          /\ sp(vm) = wrapping_sub16(sp(step.pre), 2)
          /\ pc(vm) = word_at(pc(step.pre), step.pre)

====
